---------------------------- MODULE Spec2Model ----------------------------
(***************************************************************************)
(* Demand-signal fusion and scoring engine of AdvisorDemand:               *)
(*   services/demand_scoring.py      DemandScoringService                  *)
(*   services/calculation_service.py CalculationService                    *)
(*   services/cache_manager.py       CacheManager                          *)
(*   services/data_service.py        DataService                           *)
(*   db/database.py                  DatabaseManager                       *)
(*                                                                         *)
(* Floating point numbers are modelled exactly: a finite float is a        *)
(* rational n/d, NaN and +inf are values of their own.  A z-score is the   *)
(* surd a/sqrt(rad).  Weights are in hundredths.                           *)
(***************************************************************************)
EXTENDS Integers, Sequences, FiniteSets, TLC

VARIABLES
    \* ---- DemandScoringService._z on one series
    series,      \* the pd.Series handed to _z
    zout,        \* the pd.Series _z returned
    zpc,         \* "ready" before the call, "done" after it
    \* ---- DemandScoringService.industry_scores
    cbp,         \* latest-year CBP establishments per 2-digit sector
    bfs,         \* BFS applications per sector: previous and latest year
    lic,         \* licences issued in the last 180 days per sector
    rfp,         \* RFPs posted in the last 365 days per sector
    scores,      \* the frame industry_scores returned
    spc,         \* "ready" / "done"
    \* ---- CalculationService.calculate_opportunity_score
    oin,         \* the five input tables
    ores,        \* the returned dict
    opc,         \* "ready" / "done"
    \* ---- CalculationService.calculate_capital_access_index
    cin,         \* sba_data, establishments_count, amount_weight, count_weight
    cres,        \* the returned dict
    cpc,         \* "ready" / "done"
    \* ---- CalculationService.calculate_market_concentration
    hin,         \* industry_data: the metric column, or no such column
    hres,        \* the returned dict
    hpc,         \* "ready" / "done"
    \* ---- CacheManager + DataService + DatabaseManager
    now,         \* datetime.now(), in hours
    pkl,         \* cache_dir/<key>.pkl       : key -> payload or NoFile
    meta,        \* cache_dir/<key>_meta.json : key -> metadata or NoFile
    db,          \* the relational store: source -> county -> rows
    freshness,   \* table data_freshness: source -> last_updated or Never
    call,        \* the last DataService / CacheManager call and its outcome
    scope,       \* the DataService method the behaviour exercises
    \* ---- two concurrent CacheManager.cache_data calls
    rpc,         \* thread -> position inside cache_data
    rarg         \* thread -> the frame it caches

zvars == <<series, zout, zpc>>
svars == <<cbp, bfs, lic, rfp, scores, spc>>
ovars == <<oin, ores, opc>>
cvars == <<cin, cres, cpc>>
hvars == <<hin, hres, hpc>>
dvars == <<now, pkl, meta, db, freshness, call, scope>>
rvars == <<rpc, rarg>>
vars  == <<zvars, svars, ovars, cvars, hvars, dvars, rvars>>

-----------------------------------------------------------------------------
(* Numbers *)

Num(n, d) == [k |-> "num", n |-> n, d |-> d]
NaN       == [k |-> "nan", n |-> 0, d |-> 1]
Inf       == [k |-> "inf", n |-> 1, d |-> 1]

IsNum(x) == x.k = "num"
IsNaN(x) == x.k = "nan"
IsInf(x) == x.k = "inf"

Abs(i) == IF i < 0 THEN -i ELSE i

RECURSIVE Gcd(_, _)
Gcd(a, b) == IF b = 0 THEN a ELSE Gcd(b, a % b)

\* n/d in lowest terms, d > 0
Rat(n, d) == LET g == Gcd(Abs(n), d) IN Num(n \div g, d \div g)

RatEq(x, y) == x.n * y.d = y.n * x.d
RatLt(x, y) == x.n * y.d < y.n * x.d

\* largest r with r*r <= n
RECURSIVE ISqrtFrom(_, _)
ISqrtFrom(n, r) == IF (r + 1) * (r + 1) > n THEN r ELSE ISqrtFrom(n, r + 1)
ISqrt(n) == ISqrtFrom(n, 0)

-----------------------------------------------------------------------------
(* DemandScoringService._z *)

\* a z-score a / sqrt(rad), or NaN
ZNum(a, rad) == [k |-> "num", a |-> a, rad |-> rad]
ZNaN         == [k |-> "nan", a |-> 0, rad |-> 1]
ZZero        == ZNum(0, 1)

\* pandas skips NaN in count(), mean() and std()
Valid(s) == {i \in DOMAIN s : ~IsNaN(s[i])}
Count(s) == Cardinality(Valid(s))
HasInf(s) == \E i \in DOMAIN s : IsInf(s[i])

RECURSIVE DenProd(_, _)
DenProd(s, i) == IF i = 0 THEN 1
                 ELSE (IF IsNum(s[i]) THEN s[i].d ELSE 1) * DenProd(s, i - 1)

\* the finite entries over the common denominator DenProd
Scaled(s, i) == s[i].n * (DenProd(s, Len(s)) \div s[i].d)

RECURSIVE SumScaled(_, _)
SumScaled(s, i) == IF i = 0 THEN 0
                   ELSE (IF IsNum(s[i]) THEN Scaled(s, i) ELSE 0) + SumScaled(s, i - 1)

RECURSIVE SumSquares(_, _)
SumSquares(s, i) == IF i = 0 THEN 0
                    ELSE (IF IsNum(s[i]) THEN Scaled(s, i) * Scaled(s, i) ELSE 0)
                         + SumSquares(s, i - 1)

\* Count^2 * DenProd^2 * (population variance): std(ddof=0) = sqrt(VarNum)/(Count*DenProd)
VarNum(s) == Count(s) * SumSquares(s, Len(s)) - SumScaled(s, Len(s)) * SumScaled(s, Len(s))

\* series.std(ddof=0): "nan" for an empty series or one holding inf, else zero or not
StdKind(s) == IF Count(s) = 0 \/ HasInf(s) THEN "nan"
              ELSE IF VarNum(s) = 0 THEN "zero" ELSE "pos"

Zeros(s) == [i \in DOMAIN s |-> ZZero]

\* (series - series.mean()) / series.std(), the sample deviation of ddof=1
StandardizeSample(s) ==
    [i \in DOMAIN s |->
        IF IsNaN(s[i]) \/ StdKind(s) = "nan" THEN ZNaN
        ELSE IF StdKind(s) = "zero" THEN ZNaN
        ELSE ZNum((Count(s) - 1) * (Count(s) * Scaled(s, i) - SumScaled(s, Len(s))),
                  Count(s) * (Count(s) - 1) * VarNum(s))]

\* (series - series.mean()) / series.std(ddof=0)
Standardize(s) ==
    [i \in DOMAIN s |->
        IF IsNaN(s[i]) \/ StdKind(s) = "nan" THEN ZNaN
        ELSE IF StdKind(s) = "zero" THEN ZNaN      \* 0/0
        ELSE ZNum(Count(s) * Scaled(s, i) - SumScaled(s, Len(s)), VarNum(s))]

_z_noguard(s) == Standardize(s)

_z(s) == IF StdKind(s) = "zero" \/ Count(s) < 2 THEN Zeros(s) ELSE Standardize(s)

-----------------------------------------------------------------------------
(* DemandScoringService.industry_scores *)

\* DemandWeights, in hundredths
W_bfs_apps_yoy    == 30
W_licenses_per_1k == 25
W_rfps_per_1k     == 25
W_qcew_emp_yoy    == 20

\* z-scores and demand scores are carried to 1/ZScale
ZScale == 1000

\* the 2-digit NAICS sectors, in the order groupby("naics2") yields them
SectorSeq == <<"11", "23">>
Sectors   == {SectorSeq[i] : i \in DOMAIN SectorSeq}

Row(v) == [has |-> TRUE, v |-> v]
NoRow  == [has |-> FALSE, v |-> 0]

RECURSIVE ISqrtBin(_, _, _)
ISqrtBin(n, lo, hi) ==
    IF lo >= hi THEN lo
    ELSE LET mid == (lo + hi + 1) \div 2
         IN IF mid * mid <= n THEN ISqrtBin(n, mid, hi) ELSE ISqrtBin(n, lo, mid - 1)

\* a z-score a/sqrt(rad) in units of 1/ZScale, truncated towards zero
ZFix(z) == LET g   == Gcd(z.a * z.a, z.rad)
               n   == (z.a * z.a) \div g
               d   == z.rad \div g
               mag == ISqrtBin((n * ZScale * ZScale) \div d, 0,
                               (ISqrt(n \div d) + 1) * ZScale)
           IN IF z.a < 0 THEN -mag ELSE mag

\* a demand score in units of 1/(100*ZScale), or NaN
SNum(v) == [k |-> "num", v |-> v]
SNaN    == [k |-> "nan", v |-> 0]

\* estabs: the sectors with a row in the latest CBP year, in groupby order
RECURSIVE EstabSectorsFrom(_, _)
EstabSectorsFrom(c, i) ==
    IF i > Len(SectorSeq) THEN <<>>
    ELSE (IF c[SectorSeq[i]].has THEN <<SectorSeq[i]>> ELSE <<>>)
         \o EstabSectorsFrom(c, i + 1)
EstabSectors(c) == EstabSectorsFrom(c, 1)

CbpEmpty(c) == \A s \in Sectors : ~c[s].has

\* Series.pct_change() of one step: current/previous - 1
PctChange(prev, cur) ==
    IF prev = 0 THEN (IF cur = 0 THEN NaN ELSE Inf)
    ELSE Rat(cur - prev, prev)

\* bfs_apps["year"].max(): "cur", "prev" or "none" for an empty frame
BfsMaxYear(b) == IF \E s \in Sectors : b[s].cur.has THEN "cur"
                 ELSE IF \E s \in Sectors : b[s].prev.has THEN "prev"
                 ELSE "none"

\* apps_yoy of sector s after the left merge, before fillna: NaN when the
\* sector has no row in the latest BFS year or that row is the first of its group
AppsYoy(b, s) ==
    IF BfsMaxYear(b) = "cur" /\ b[s].cur.has /\ b[s].prev.has
    THEN PctChange(b[s].prev.v, b[s].cur.v)
    ELSE NaN

FillNa(x) == IF IsNaN(x) THEN Num(0, 1) ELSE x

\* np.where(establishments > 0, 1000*cnt/establishments, 0.0)
Per1k(cnt, estab) == IF estab > 0 THEN Rat(1000 * cnt, estab) ELSE Num(0, 1)

ColApps(c, b) == [i \in DOMAIN EstabSectors(c) |-> FillNa(AppsYoy(b, EstabSectors(c)[i]))]
ColLic(c, l)  == [i \in DOMAIN EstabSectors(c) |->
                     Per1k(l[EstabSectors(c)[i]], c[EstabSectors(c)[i]].v)]
ColRfp(c, r)  == [i \in DOMAIN EstabSectors(c) |->
                     Per1k(r[EstabSectors(c)[i]], c[EstabSectors(c)[i]].v)]

\* w_bfs*z_apps_yoy + w_lic*z_licenses_1k + w_rfp*z_rfps_1k
WeightedSum3(za, zl, zr) ==
    IF za.k = "nan" \/ zl.k = "nan" \/ zr.k = "nan" THEN SNaN
    ELSE SNum(W_bfs_apps_yoy * ZFix(za) + W_licenses_per_1k * ZFix(zl)
              + W_rfps_per_1k * ZFix(zr))

DemandScore(za, zl, zr) == WeightedSum3(za, zl, zr)

SpendSmall == 200     \* establishments below this: the lowest spend band
SpendMid   == 1000    \* establishments below this: the middle spend band
SpendLow(e)  == IF e < SpendSmall THEN 200 ELSE IF e < SpendMid THEN 500 ELSE 1500
SpendHigh(e) == IF e < SpendSmall THEN 600 ELSE IF e < SpendMid THEN 1500 ELSE 2500

\* sort_values("demand_score", ascending=False): NaN last, ties in frame order
ScoreBefore(x, y) == /\ x.demand_score.k = "num"
                     /\ (y.demand_score.k = "nan" \/ x.demand_score.v > y.demand_score.v)

RECURSIVE InsertRow(_, _)
InsertRow(sorted, r) ==
    IF sorted = <<>> THEN <<r>>
    ELSE IF ScoreBefore(r, Head(sorted)) THEN <<r>> \o sorted
    ELSE <<Head(sorted)>> \o InsertRow(Tail(sorted), r)

RECURSIVE SortDesc(_, _)
SortDesc(rows, i) == IF i = 0 THEN <<>> ELSE InsertRow(SortDesc(rows, i - 1), rows[i])

\* estabs: one row per sector of the latest CBP year
Estabs(c) == [i \in DOMAIN EstabSectors(c) |->
                [naics2 |-> EstabSectors(c)[i], establishments |-> c[EstabSectors(c)[i]].v]]

\* bfs_apps with its apps_yoy column, every year kept: one row per (naics2, year)
RECURSIVE BfsAppsAllYears(_, _)
BfsAppsAllYears(b, i) ==
    IF i > Len(SectorSeq) THEN <<>>
    ELSE LET s == SectorSeq[i]
         IN (IF b[s].prev.has THEN <<[naics2 |-> s, v |-> NaN]>> ELSE <<>>)
            \o (IF b[s].cur.has
                THEN <<[naics2 |-> s,
                        v |-> IF b[s].prev.has THEN PctChange(b[s].prev.v, b[s].cur.v)
                              ELSE NaN]>>
                ELSE <<>>)
            \o BfsAppsAllYears(b, i + 1)

\* bfs_apps[bfs_apps["year"] == bfs_apps["year"].max()][["naics2", "apps_yoy"]]
RECURSIVE BfsAppsYoy(_, _)
BfsAppsYoy(b, i) ==
    IF i > Len(SectorSeq) THEN <<>>
    ELSE LET s == SectorSeq[i]
         IN (IF BfsMaxYear(b) = "cur" /\ b[s].cur.has
             THEN <<[naics2 |-> s,
                     v |-> IF b[s].prev.has THEN PctChange(b[s].prev.v, b[s].cur.v)
                           ELSE NaN]>>
             ELSE IF BfsMaxYear(b) = "prev" /\ b[s].prev.has
             THEN <<[naics2 |-> s, v |-> NaN]>>
             ELSE <<>>)
            \o BfsAppsYoy(b, i + 1)

\* groupby("naics2")[...].count(): one row per sector that has rows
RECURSIVE GroupCounts(_, _)
GroupCounts(cnt, i) ==
    IF i > Len(SectorSeq) THEN <<>>
    ELSE (IF cnt[SectorSeq[i]] > 0
          THEN <<[naics2 |-> SectorSeq[i], v |-> Num(cnt[SectorSeq[i]], 1)]>>
          ELSE <<>>)
         \o GroupCounts(cnt, i + 1)

\* left.merge(right, on="naics2", how="left"), rows 1..i of left: one output row
\* per matching row of right, or one row with a missing value when none matches
RECURSIVE LeftMerge(_, _, _, _)
LeftMerge(left, right, col, i) ==
    IF i = 0 THEN <<>>
    ELSE LET m == SelectSeq(right, LAMBDA x : x.naics2 = left[i].naics2)
         IN LeftMerge(left, right, col, i - 1)
            \o (IF m = <<>> THEN <<left[i] @@ (col :> NaN)>>
                ELSE [k \in DOMAIN m |-> left[i] @@ (col :> m[k].v)])

Joined(c, b, l, r) ==
    LET j1 == LeftMerge(Estabs(c), BfsAppsYoy(b, 1), "apps_yoy", Len(Estabs(c)))
        j2 == LeftMerge(j1, GroupCounts(l, 1), "license_cnt", Len(j1))
    IN LeftMerge(j2, GroupCounts(r, 1), "rfp_cnt", Len(j2))

industry_scores(c, b, l, r) ==
    IF CbpEmpty(c) THEN <<>>
    ELSE LET j   == Joined(c, b, l, r)
             za  == _z([i \in DOMAIN j |-> FillNa(j[i].apps_yoy)])
             zl  == _z([i \in DOMAIN j |->
                          Per1k(FillNa(j[i].license_cnt).n, j[i].establishments)])
             zr  == _z([i \in DOMAIN j |->
                          Per1k(FillNa(j[i].rfp_cnt).n, j[i].establishments)])
             df  == [i \in DOMAIN j |->
                       [naics          |-> j[i].naics2,
                        establishments |-> j[i].establishments,
                        demand_score   |-> DemandScore(za[i], zl[i], zr[i]),
                        spend_low      |-> SpendLow(j[i].establishments),
                        spend_high     |-> SpendHigh(j[i].establishments)]]
         IN SortDesc(df, Len(df))

-----------------------------------------------------------------------------
(* CalculationService.calculate_opportunity_score *)

\* the declared weights of the five signals, in hundredths
W_employment_growth  == 30
W_rfp_activity       == 25
W_award_activity     == 20
W_formation_activity == 15
W_license_activity   == 10

NeutralSignal    == 50      \* the "neutral score" the helpers fall back to
MaxSignal        == 100     \* upper clamp of every signal
MinSignals       == 2       \* fewest signals a composite score needs
GrowthPointsPerPercent == 2 \* 1% growth = 2 signal points
RfpTypicalMax    == 20      \* "0-20 RFPs is typical range for a county"
RfpNeutralRatio  == 25      \* "25% recent activity = 50 (neutral)"
AwardTypicalCount == 50     \* "0-50 awards typical"
LicenseFullCount == 25      \* "25 recent licenses = 100 signal"

RatLe(x, y) == x.n * y.d <= y.n * x.d

\* max(0, min(100, signal))
Clamp100(x) == IF RatLt(x, Num(0, 1)) THEN Num(0, 1)
               ELSE IF RatLt(Num(MaxSignal, 1), x) THEN Num(MaxSignal, 1)
               ELSE x

\* 50 + ((recent/previous) - 1) * 100 * 2, clamped
GrowthSignal(prev, recent) ==
    Clamp100(Rat(NeutralSignal * prev
                 + (recent - prev) * 100 * GrowthPointsPerPercent, prev))

\* industry_data: n rows, cols = has 'employment' and 'year', years = distinct
\* years, prev/recent = employment summed over the last two years
_calculate_employment_growth(t) ==
    IF ~t.cols THEN Num(NeutralSignal, 1)
    ELSE IF t.years < 2 THEN Num(NeutralSignal, 1)
    ELSE IF t.prev > 0 THEN GrowthSignal(t.prev, t.recent)
    ELSE Num(NeutralSignal, 1)

\* rfp_data: n rows, cols = has 'posted_date', recent = rows of the last 90 days
_calculate_rfp_signal(t) ==
    IF t.cols /\ t.n > 0
    THEN Clamp100(Rat(t.recent * 100 * NeutralSignal, t.n * RfpNeutralRatio))
    ELSE Clamp100(Rat(t.n * 100, RfpTypicalMax))

\* awards_data: n rows, cols = has 'amount', amount = sum in units of $10M
_calculate_award_signal(t) ==
    IF t.cols
    THEN Clamp100(Rat(t.amount * NeutralSignal * AwardTypicalCount
                      + t.n * NeutralSignal, 2 * AwardTypicalCount))
    ELSE Num(NeutralSignal, 1)

\* formation_data: n rows, cols = has 'applications_total', prev/recent = the
\* last two rows by year
_calculate_formation_signal(t) ==
    IF t.cols /\ t.n >= 2 /\ t.prev > 0 THEN GrowthSignal(t.prev, t.recent)
    ELSE Num(NeutralSignal, 1)

\* license_data: n rows, cols = has 'issued_date', recent = rows of the last 90 days
_calculate_license_signal(t) ==
    IF t.cols THEN Clamp100(Rat(t.recent * 100, LicenseFullCount))
    ELSE Num(NeutralSignal, 1)

Component(name, signal, weight) == [name |-> name, signal |-> signal, weight |-> weight]

\* score_components with the industry table admitted from its first row
ScoreComponentsAnyRows(in) ==
       (IF in.industry.n > 0
        THEN <<Component("employment_growth",
                         _calculate_employment_growth(in.industry),
                         W_employment_growth)>> ELSE <<>>)
    \o (IF in.rfp.n > 0
        THEN <<Component("rfp_activity", _calculate_rfp_signal(in.rfp),
                         W_rfp_activity)>> ELSE <<>>)
    \o (IF in.awards.n > 0
        THEN <<Component("award_activity", _calculate_award_signal(in.awards),
                         W_award_activity)>> ELSE <<>>)
    \o (IF in.formation.n > 0
        THEN <<Component("formation_activity",
                         _calculate_formation_signal(in.formation),
                         W_formation_activity)>> ELSE <<>>)
    \o (IF in.license.n > 0
        THEN <<Component("license_activity", _calculate_license_signal(in.license),
                         W_license_activity)>> ELSE <<>>)

\* the score_components list in the order the code appends to it
ScoreComponents(in) ==
       (IF in.industry.n > 0 /\ in.industry.n > 1
        THEN <<Component("employment_growth",
                         _calculate_employment_growth(in.industry),
                         W_employment_growth)>> ELSE <<>>)
    \o (IF in.rfp.n > 0
        THEN <<Component("rfp_activity", _calculate_rfp_signal(in.rfp),
                         W_rfp_activity)>> ELSE <<>>)
    \o (IF in.awards.n > 0
        THEN <<Component("award_activity", _calculate_award_signal(in.awards),
                         W_award_activity)>> ELSE <<>>)
    \o (IF in.formation.n > 0
        THEN <<Component("formation_activity",
                         _calculate_formation_signal(in.formation),
                         W_formation_activity)>> ELSE <<>>)
    \o (IF in.license.n > 0
        THEN <<Component("license_activity", _calculate_license_signal(in.license),
                         W_license_activity)>> ELSE <<>>)

RECURSIVE TotalWeight(_, _)
TotalWeight(cs, i) == IF i = 0 THEN 0 ELSE cs[i].weight + TotalWeight(cs, i - 1)

RECURSIVE SignalDenProd(_, _)
SignalDenProd(cs, i) == IF i = 0 THEN 1 ELSE cs[i].signal.d * SignalDenProd(cs, i - 1)

\* sum(signal * weight), times the common denominator SignalDenProd
RECURSIVE WeightedNum(_, _)
WeightedNum(cs, i) ==
    IF i = 0 THEN 0
    ELSE cs[i].weight * cs[i].signal.n * (SignalDenProd(cs, Len(cs)) \div cs[i].signal.d)
         + WeightedNum(cs, i - 1)

\* the weighted sum over the fixed total 1.0 of the five declared weights
WeightedAverageFixedTotal(cs) ==
    Rat(100 * WeightedNum(cs, Len(cs)), 100 * SignalDenProd(cs, Len(cs)))

\* (weighted_score / total_weight) * 100
WeightedAverageTimes100(cs) ==
    Rat(100 * WeightedNum(cs, Len(cs)), TotalWeight(cs, Len(cs)) * SignalDenProd(cs, Len(cs)))

\* round(x, 1) of x >= 0, in tenths, ties to even
RoundTenths(x) ==
    LET q == (10 * x.n) \div x.d
        r == (10 * x.n) % x.d
    IN IF 2 * r > x.d \/ (2 * r = x.d /\ q % 2 = 1) THEN q + 1 ELSE q

NoScore      == [k |-> "none", tenths |-> 0]
Score(t)     == [k |-> "num", tenths |-> t]

Insufficient     == [text |-> "Insufficient signals for composite score (minimum 2 required)", n |-> 0]
WeightedOf(n)    == [text |-> "Weighted average of n signals", n |-> n]

\* round(opportunity_score, 1) if opportunity_score else None
RoundedOrNone(x) == IF x.n # 0 THEN Score(RoundTenths(x)) ELSE NoScore

CompositeScoreAny(cs) ==
    IF Len(cs) >= 1 THEN RoundedOrNone(WeightedAverageTimes100(cs)) ELSE NoScore

CompositeScore(cs) ==
    IF Len(cs) >= MinSignals THEN RoundedOrNone(WeightedAverageTimes100(cs)) ELSE NoScore

\* data[col] = pd.to_datetime(data[col], errors='coerce'), an assignment to the
\* caller's frame: a column of date strings becomes a datetime64 column
to_datetime(t) == [t EXCEPT !.dtype = "datetime64"]

\* the five arguments as calculate_opportunity_score leaves them: the RFP
\* helper runs once industry_data.empty and rfp_data.empty have been read, the
\* licence helper once every argument's .empty has
InputsAfter(in) ==
    [in EXCEPT
        !.rfp = IF in.industry.frame /\ in.rfp.frame /\ in.rfp.n > 0 /\ in.rfp.cols
                THEN to_datetime(@) ELSE @,
        !.license = IF (\A nm \in DOMAIN in : in[nm].frame)
                       /\ in.license.n > 0 /\ in.license.cols
                    THEN to_datetime(@) ELSE @]

CalculationFailed == [text |-> "Calculation error", n |-> 0]

\* the dict of the except block
OpportunityError ==
    [opportunity_score |-> NoScore, signals |-> {}, components |-> <<>>,
     methodology |-> CalculationFailed, signals_count |-> 0]

\* every argument's .empty is read, so an argument that is not a DataFrame
\* raises inside the try block whatever the other arguments are
calculate_opportunity_score(in) ==
    IF \E nm \in DOMAIN in : ~in[nm].frame THEN OpportunityError
    ELSE LET cs == ScoreComponents(in)
         IN [opportunity_score |-> CompositeScore(cs),
             signals       |-> {<<cs[i].name, cs[i].signal>> : i \in DOMAIN cs},
             components    |-> cs,
             methodology   |-> IF Len(cs) >= MinSignals THEN WeightedOf(Len(cs))
                               ELSE Insufficient,
             signals_count |-> Len(cs)]

-----------------------------------------------------------------------------
(* CalculationService.calculate_capital_access_index *)

RatAdd(x, y) == Rat(x.n * y.d + y.n * x.d, x.d * y.d)
RatMul(x, y) == Rat(x.n * y.n, x.d * y.d)
RatDiv(x, y) == IF y.n < 0 THEN Rat(-(x.n * y.d), x.d * (-y.n)) ELSE Rat(x.n * y.d, x.d * y.n)
RatMax(x, y) == IF RatLt(x, y) THEN y ELSE x
RatMin(x, y) == IF RatLt(y, x) THEN y ELSE x

\* (value - min_val) / (max_val - min_val) without the clamp
_min_max_normalize_unclamped(value, min_val, max_val) ==
    IF max_val = min_val THEN Num(1, 2)
    ELSE RatDiv(Num(value.n - min_val * value.d, value.d), Num(max_val - min_val, 1))

\* max(0, min(1, (value - min_val) / (max_val - min_val))); 0.5 for an empty range
_min_max_normalize(value, min_val, max_val) ==
    IF max_val = min_val THEN Num(1, 2)
    ELSE RatMax(Num(0, 1),
                RatMin(Num(1, 1),
                       RatDiv(Num(value.n - min_val * value.d, value.d),
                              Num(max_val - min_val, 1))))

PerThousand      == 1000       \* rates are per 1,000 establishments
LoansPer1kMax    == 50         \* loans_per_1k_range = (0, 50)
AmountPer1kMax   == 5000000    \* amount_per_1k_range = (0, 5000000)
Percent          == 100        \* the 0-100 scale of the normalized metrics and the index

\* round(x, 0) of any rational, ties to even
RoundUnits(x) ==
    LET a == Abs(x.n)
        q == a \div x.d
        r == a % x.d
        m == IF 2 * r > x.d \/ (2 * r = x.d /\ q % 2 = 1) THEN q + 1 ELSE q
    IN IF x.n < 0 THEN -m ELSE m

\* round(x, 1), in tenths
RoundTenthsSigned(x) == RoundUnits(Num(10 * x.n, x.d))

InsufficientData == "Insufficient data for calculation"
CalculationError == "Calculation error"
WeightedAverageText == "Weighted average: amount_per_1k + count_per_1k, min-max normalized 0-100"

\* the dict of the early return and of the except block
CapitalDefault(methodology) ==
    [index_score |-> 0, index_unrounded |-> Num(0, 1),
     loans_per_1k_firms |-> 0, amount_per_1k_firms |-> 0,
     normalized_loans |-> Num(0, 1), normalized_amount |-> Num(0, 1),
     has_metrics |-> FALSE, methodology |-> methodology]

\* max(0, min(100, index_score))
ClampIndex(x) == RatMax(Num(0, 1), RatMin(Num(Percent, 1), x))

\* weights are in hundredths; index_score and loans_per_1k_firms in tenths
calculate_capital_access_index(sba_data, establishments_count, amount_weight, count_weight) ==
    IF sba_data.n = 0 \/ establishments_count = 0 THEN CapitalDefault(InsufficientData)
    ELSE IF ~sba_data.has_amount THEN CapitalDefault(CalculationError)
    ELSE LET loans_per_1k  == Rat(sba_data.n * PerThousand, establishments_count)
             amount_per_1k == Rat(sba_data.amount * PerThousand, establishments_count)
             normalized_loans  ==
                 RatMul(_min_max_normalize(loans_per_1k, 0, LoansPer1kMax), Num(Percent, 1))
             normalized_amount ==
                 RatMul(_min_max_normalize(amount_per_1k, 0, AmountPer1kMax), Num(Percent, 1))
             index_score == ClampIndex(
                 RatAdd(RatMul(normalized_amount, Rat(amount_weight, 100)),
                        RatMul(normalized_loans, Rat(count_weight, 100))))
         IN [index_score |-> RoundTenthsSigned(index_score),
             index_unrounded |-> index_score,
             loans_per_1k_firms |-> RoundTenthsSigned(loans_per_1k),
             amount_per_1k_firms |-> RoundUnits(amount_per_1k),
             normalized_loans |-> normalized_loans,
             normalized_amount |-> normalized_amount,
             has_metrics |-> TRUE, methodology |-> WeightedAverageText]

-----------------------------------------------------------------------------
(* CalculationService.calculate_market_concentration *)

\* industry_data is [has_metric, rows]: whether the table has the metric
\* column, and the metric value of every row (NaN for a missing value).
\* The metric values are whole numbers.

HhiScale            == 10000   \* hhi is on the 0-10000 scale
CompetitiveBelow    == 1500    \* hhi < 1500 is 'Competitive'
ModerateBelow       == 2500    \* hhi < 2500 is 'Moderately Concentrated'
TopShares           == 4       \* market_shares.nlargest(4)

\* the filter with > 1 in the place of > 0
ValidRowsAboveOne(rows) == SelectSeq(rows, LAMBDA v : IsNum(v) /\ v.n > 1)

\* industry_data[industry_data[metric].notna() & (industry_data[metric] > 0)]
ValidRows(rows) == SelectSeq(rows, LAMBDA v : IsNum(v) /\ v.n > 0)

RECURSIVE SumValues(_)
SumValues(rows) == IF rows = <<>> THEN 0 ELSE Head(rows).n + SumValues(Tail(rows))

RECURSIVE SumValueSquares(_)
SumValueSquares(rows) ==
    IF rows = <<>> THEN 0 ELSE Head(rows).n * Head(rows).n + SumValueSquares(Tail(rows))

\* the sum of the k largest values of rows
RECURSIVE SumLargest(_, _)
SumLargest(rows, k) ==
    IF k = 0 \/ rows = <<>> THEN 0
    ELSE LET i == CHOOSE i \in DOMAIN rows : \A j \in DOMAIN rows : rows[j].n <= rows[i].n
             rest == [j \in 1..(Len(rows) - 1) |-> IF j < i THEN rows[j] ELSE rows[j + 1]]
         IN rows[i].n + SumLargest(rest, k - 1)

\* the label compared with the exact thresholds, both bounds exclusive below
MarketStructure(hhi) ==
    IF RatLt(hhi, Num(CompetitiveBelow, 1)) THEN "Competitive"
    ELSE IF RatLt(hhi, Num(ModerateBelow, 1)) THEN "Moderately Concentrated"
    ELSE "Highly Concentrated"

\* the dict of the two early returns
ConcentrationDefault(market_structure) ==
    [hhi |-> 0, hhi_unrounded |-> Num(0, 1), top_4_concentration |-> 0,
     effective_competitors |-> 0, market_structure |-> market_structure,
     has_total_firms |-> FALSE, total_firms |-> 0]

\* top_4_concentration and effective_competitors are in tenths
calculate_market_concentration(industry_data) ==
    IF industry_data.rows = <<>> \/ ~industry_data.has_metric
    THEN ConcentrationDefault("Unknown")
    ELSE LET valid_data == ValidRows(industry_data.rows)
         IN IF valid_data = <<>> THEN ConcentrationDefault("No data")
            ELSE LET total == SumValues(valid_data)
                     hhi   == Rat(SumValueSquares(valid_data) * HhiScale, total * total)
                     top_4_concentration ==
                         Rat(SumLargest(valid_data, TopShares) * Percent, total)
                     effective_competitors == RatDiv(Num(HhiScale, 1), hhi)
                 IN [hhi |-> RoundUnits(hhi),
                     hhi_unrounded |-> hhi,
                     top_4_concentration |-> RoundTenthsSigned(top_4_concentration),
                     effective_competitors |-> RoundTenthsSigned(effective_competitors),
                     market_structure |-> MarketStructure(hhi),
                     has_total_firms |-> TRUE,
                     total_firms |-> Len(valid_data)]

-----------------------------------------------------------------------------
(* CacheManager *)

Counties == {"06037", "06083"}

\* what an adapter call does: raises, returns [], or returns one of two record lists
RecordLists    == {"r1", "r2"}
AdapterResults == {"raise", "empty"} \cup RecordLists

\* len() of a record list
ListRows(id) == IF id = "r1" THEN 1 ELSE 2

\* a Python value handed around by the services: None, a DataFrame (empty or
\* holding the record lists recs), or a dict
Frame(kind, recs, at) == [kind |-> kind, recs |-> recs, at |-> at]
NoneFrame  == Frame("None", {}, 0)
EmptyFrame == Frame("empty", {}, 0)

IsNone(f)     == f.kind = "None"
IsDict(f)     == f.kind = "dict"
IsEmpty(f)    == f.kind = "empty"

RECURSIVE SumRows(_)
SumRows(S) == IF S = {} THEN 0
              ELSE LET x == CHOOSE y \in S : TRUE IN ListRows(x) + SumRows(S \ {x})

SampleRows == 3   \* rows of the sample SBA frame; entries of the sample dict: 6

\* len(data)
FrameRows(f) == IF f.kind \in {"sba_sample", "dict"} THEN SampleRows ELSE SumRows(f.recs)

\* self.cache_duration, in hours, with the default of cache_duration.get(data_type, 24)
cache_duration(data_type) ==
    CASE data_type = "cbp_data"     -> 24
      [] data_type = "qcew_data"    -> 24
      [] data_type = "sba_data"     -> 48
      [] data_type = "sam_data"     -> 12
      [] data_type = "firm_data"    -> 48
      [] data_type = "signals_data" -> 6
      [] OTHER                      -> 24

\* A string is the sequence of its parts between underscores: "cbp_data" is
\* <<"cbp", "data">>, so that "_".join is the concatenation of the parts and
\* two strings are equal exactly when their parts are.
Split(s) ==
    CASE s = "cbp_data"      -> <<"cbp", "data">>
      [] s = "sba_data"      -> <<"sba", "data">>
      [] s = "sam_data"      -> <<"sam", "data">>
      [] s = "firm_data"     -> <<"firm", "data">>
      [] s = "firm_age_data" -> <<"firm", "age", "data">>
      [] s = "signals_data"  -> <<"signals", "data">>
      [] s = "naics_level"   -> <<"naics", "level">>
      [] s = "level_2"       -> <<"level", "2">>
      [] OTHER               -> <<s>>

\* a keyword value: an int or a str, with the text str() gives it
IntVal(repr) == [type |-> "int", repr |-> repr]
StrVal(repr) == [type |-> "str", repr |-> repr]

\* str(v) inside the f-string
Str(v) == v.repr

\* the place of a keyword name in the order of Python strings
NameRank(k) ==
    CASE k = "naics"       -> 1
      [] k = "naics_level" -> 2
      [] k = "year"        -> 3

\* sorted(kwargs.items()): kwargs is the sequence of <<name, value>> in the
\* order the keywords were passed
RECURSIVE SortedItems(_)
SortedItems(kwargs) ==
    IF kwargs = <<>> THEN <<>>
    ELSE LET i == CHOOSE i \in DOMAIN kwargs :
                      \A j \in DOMAIN kwargs : NameRank(kwargs[i][1]) <= NameRank(kwargs[j][1])
             rest == [j \in 1..(Len(kwargs) - 1) |->
                          IF j < i THEN kwargs[j] ELSE kwargs[j + 1]]
         IN <<kwargs[i]>> \o SortedItems(rest)

\* the parts f"{k}_{v}" of the items, joined
RECURSIVE ItemParts(_)
ItemParts(items) ==
    IF items = <<>> THEN <<>>
    ELSE Split(Head(items)[1]) \o Split(Str(Head(items)[2])) \o ItemParts(Tail(items))

\* "_".join([data_type, county_fips] + [f"{k}_{v}" for k, v in sorted(kwargs.items())])
_get_cache_key(data_type, county_fips, kwargs) ==
    Split(data_type) \o Split(county_fips) \o ItemParts(SortedItems(kwargs))

NoKwargs   == <<>>
NaicsLevel == <<(<<"naics_level", IntVal("2")>>)>>

CallOf(data_type, county_fips, kwargs) ==
    [data_type |-> data_type, county_fips |-> county_fips, kwargs |-> kwargs]

\* the calls DataService makes on the cache
AddressedCalls ==
    {CallOf("cbp_data", c, NaicsLevel) : c \in Counties}
    \cup {CallOf(dt, c, NoKwargs) :
            dt \in {"sba_data", "firm_age_data", "signals_data"}, c \in Counties}

\* the key of each of these calls
AddressedKey == [k \in AddressedCalls |-> _get_cache_key(k.data_type, k.county_fips, k.kwargs)]

\* the keys DataService addresses
CacheKeys == {_get_cache_key(k.data_type, k.county_fips, k.kwargs) : k \in AddressedCalls}

NoFile      == [exists |-> FALSE, data |-> NoneFrame]
PklFile(d)  == [exists |-> TRUE, data |-> d]
NoMeta      == [exists |-> FALSE, timestamp |-> 0, rows |-> 0]
MetaFile(ts, rows) == [exists |-> TRUE, timestamp |-> ts, rows |-> rows]

\* datetime.now() - cached_time < max_age
FreshEnoughInclusive(age, max_age) == age <= max_age
FreshEnough(age, max_age) == age < max_age

is_cache_valid(m, cache_key, data_type, t) ==
    /\ m[cache_key].exists
    /\ FreshEnough(t - m[cache_key].timestamp, cache_duration(data_type))

get_cached_data(p, m, data_type, county_fips, kwargs, t) ==
    LET cache_key == _get_cache_key(data_type, county_fips, kwargs)
    IN IF ~p[cache_key].exists THEN NoneFrame
       ELSE IF ~is_cache_valid(m, cache_key, data_type, t) THEN NoneFrame
       ELSE p[cache_key].data

\* cache_data on a dict: data.empty raises AttributeError before the try block
CacheDataRaises(data) == ~IsNone(data) /\ IsDict(data)

\* the early return, were it taken for None only
CacheDataSkipsNone(data) == IsNone(data)

\* "if data is None or data.empty: return"
CacheDataSkips(data) == IsNone(data) \/ IsEmpty(data)

\* the payload file after cache_data
CachedPkl(p, data, data_type, county_fips, kwargs) ==
    IF CacheDataSkips(data) THEN p
    ELSE [p EXCEPT ![_get_cache_key(data_type, county_fips, kwargs)] = PklFile(data)]

\* the metadata file after cache_data
CachedMeta(m, data, data_type, county_fips, kwargs, t) ==
    IF CacheDataSkips(data) THEN m
    ELSE [m EXCEPT ![_get_cache_key(data_type, county_fips, kwargs)] =
                        MetaFile(t, FrameRows(data))]

-----------------------------------------------------------------------------
(* DatabaseManager and DataService *)

\* data_freshness.source_name; each source has one table of the store
Sources == {"cbp", "qcew", "sba", "rfps", "awards", "licenses", "firms", "formations"}

Never    == [has |-> FALSE, at |-> 0]
Stamp(t) == [has |-> TRUE, at |-> t]

HoursPerDay == 24

\* dbup = FALSE: the store raises on every statement of the call
_needs_refresh(source_name, days, dbup) ==
    IF ~dbup THEN TRUE
    ELSE IF ~freshness[source_name].has THEN TRUE
    ELSE freshness[source_name].at < now - days * HoursPerDay

\* _fetch_and_store_*: "if data:" execute_bulk_insert, then update_data_freshness;
\* an exception of the adapter or of the store is caught and logged
StoresAlways(a, dbup)  == a # "raise" /\ dbup
StoresRecords(a, dbup) == a \in RecordLists /\ dbup

execute_bulk_insert(d, source_name, county_fips, a) ==
    IF a \in RecordLists
    THEN [d EXCEPT ![source_name][county_fips] = @ \cup {a}]
    ELSE d

update_data_freshness(f, source_name, t) == [f EXCEPT ![source_name] = Stamp(t)]

StoreAfterFetch(source_name, county_fips, a, dbup) ==
    IF StoresRecords(a, dbup) THEN execute_bulk_insert(db, source_name, county_fips, a)
    ELSE db

FreshnessAfterFetch(source_name, a, dbup) ==
    IF StoresRecords(a, dbup) THEN update_data_freshness(freshness, source_name, now)
    ELSE freshness

\* db.execute_query(... WHERE county_fips = ?): a DataFrame
QueryFrame(d, source_name, county_fips) ==
    IF d[source_name][county_fips] = {} THEN EmptyFrame
    ELSE Frame("rows", d[source_name][county_fips], 0)

\* what one DataService call leaves behind and returns
\* (hit: the cached payload was returned; fetched: an adapter was called)
Effect(d, f, p, m, result, raised, fetched, hit) ==
    [db |-> d, freshness |-> f, pkl |-> p, meta |-> m,
     result |-> result, raised |-> raised, fetched |-> fetched, hit |-> hit]

\* _fetch_fresh_industry_data: the adapter's records as a frame stamped
\* retrieved_at = now; an empty frame when the adapter raises or returns []
_fetch_fresh_industry_data(a) ==
    IF a \in RecordLists THEN Frame("cbp", {a}, now) ELSE EmptyFrame

\* get_industry_data, were a hit to write the entry again
get_industry_data_restamp(county_fips, refresh, a) ==
    LET cached == IF refresh THEN NoneFrame
                  ELSE get_cached_data(pkl, meta, "cbp_data", county_fips, NaicsLevel, now)
        fresh  == _fetch_fresh_industry_data(a)
    IN IF ~refresh /\ ~IsNone(cached)
       THEN Effect(db, freshness, pkl,
                   CachedMeta(meta, cached, "cbp_data", county_fips, NaicsLevel, now),
                   cached, FALSE, FALSE, TRUE)
       ELSE Effect(db, freshness,
                   CachedPkl(pkl, fresh, "cbp_data", county_fips, NaicsLevel),
                   CachedMeta(meta, fresh, "cbp_data", county_fips, NaicsLevel, now),
                   fresh, FALSE, TRUE, FALSE)

get_industry_data(county_fips, refresh, a) ==
    LET cached == IF refresh THEN NoneFrame
                  ELSE get_cached_data(pkl, meta, "cbp_data", county_fips, NaicsLevel, now)
        fresh  == _fetch_fresh_industry_data(a)
    IN IF ~refresh /\ ~IsNone(cached)
       THEN Effect(db, freshness, pkl, meta, cached, FALSE, FALSE, TRUE)
       ELSE Effect(db, freshness,
                   CachedPkl(pkl, fresh, "cbp_data", county_fips, NaicsLevel),
                   CachedMeta(meta, fresh, "cbp_data", county_fips, NaicsLevel, now),
                   fresh, FALSE, TRUE, FALSE)

\* _fetch_fresh_demand_signals: self.get_rfp_data_old does not exist, the
\* AttributeError is caught and an empty frame returned before any adapter is called
_fetch_fresh_demand_signals == EmptyFrame

get_demand_signals(county_fips, refresh) ==
    LET cached == IF refresh THEN NoneFrame
                  ELSE get_cached_data(pkl, meta, "signals_data", county_fips, NoKwargs, now)
        fresh  == _fetch_fresh_demand_signals
    IN IF ~refresh /\ ~IsNone(cached)
       THEN Effect(db, freshness, pkl, meta, cached, FALSE, FALSE, TRUE)
       ELSE Effect(db, freshness,
                   CachedPkl(pkl, fresh, "signals_data", county_fips, NoKwargs),
                   CachedMeta(meta, fresh, "signals_data", county_fips, NoKwargs, now),
                   fresh, FALSE, FALSE, FALSE)

\* the store getter, were a write to the store to drop the cache entries
StoreGetterInvalidating(source_name, days, county_fips, refresh, a, dbup) ==
    LET fetch == refresh \/ _needs_refresh(source_name, days, dbup)
        wrote == fetch /\ StoresRecords(a, dbup)
        d == IF fetch THEN StoreAfterFetch(source_name, county_fips, a, dbup) ELSE db
        f == IF fetch THEN FreshnessAfterFetch(source_name, a, dbup) ELSE freshness
    IN Effect(d, f,
              IF wrote THEN [key \in DOMAIN pkl |-> NoFile] ELSE pkl,
              IF wrote THEN [key \in DOMAIN meta |-> NoMeta] ELSE meta,
              IF dbup THEN QueryFrame(d, source_name, county_fips) ELSE EmptyFrame,
              FALSE, fetch, FALSE)

\* get_rfp_data, get_awards_data, get_license_data, get_formation_data
StoreGetter(source_name, days, county_fips, refresh, a, dbup) ==
    LET fetch == refresh \/ _needs_refresh(source_name, days, dbup)
        d == IF fetch THEN StoreAfterFetch(source_name, county_fips, a, dbup) ELSE db
        f == IF fetch THEN FreshnessAfterFetch(source_name, a, dbup) ELSE freshness
    IN Effect(d, f, pkl, meta,
              IF dbup THEN QueryFrame(d, source_name, county_fips) ELSE EmptyFrame,
              FALSE, fetch, FALSE)

get_rfp_data(c, refresh, a, dbup)       == StoreGetter("rfps", 1, c, refresh, a, dbup)
get_awards_data(c, refresh, a, dbup)    == StoreGetter("awards", 1, c, refresh, a, dbup)
get_license_data(c, refresh, a, dbup)   == StoreGetter("licenses", 7, c, refresh, a, dbup)
get_formation_data(c, refresh, a, dbup) == StoreGetter("formations", 90, c, refresh, a, dbup)

SampleSba == Frame("sba_sample", {}, 0)

\* _get_establishment_count: SUM(establishments) of the county, 0 without rows
\* or when the query raises
_get_establishment_count(d, county_fips, dbup) ==
    IF dbup THEN SumRows(d["cbp"][county_fips]) ELSE 0

\* sum of the amount column of a record list, in dollars
ListAmount(id) == IF id = "r1" THEN 250000 ELSE 400000

RECURSIVE SumAmounts(_)
SumAmounts(S) == IF S = {} THEN 0
                 ELSE LET x == CHOOSE y \in S : TRUE IN ListAmount(x) + SumAmounts(S \ {x})

\* the per-1k columns of annual_metrics, were the division made for any count
SbaRatesUnguarded(loan_count, total_amount, establishments) ==
    LET e == IF establishments > 0 THEN establishments ELSE 1
    IN [loans_per_1k_firms  |-> Rat(loan_count * PerThousand, e),
        amount_per_1k_firms |-> Rat(total_amount * PerThousand, e)]

\* the per-1k columns of annual_metrics: (x / establishments) * 1000, or 0
SbaRates(loan_count, total_amount, establishments) ==
    IF establishments > 0
    THEN [loans_per_1k_firms  |-> Rat(loan_count * PerThousand, establishments),
          amount_per_1k_firms |-> Rat(total_amount * PerThousand, establishments)]
    ELSE [loans_per_1k_firms |-> Num(0, 1), amount_per_1k_firms |-> Num(0, 1)]

\* annual_metrics: the loans of the county with the per-1k columns, which are 0
\* when the establishment count is 0
AnnualMetrics(d, county_fips, dbup) ==
    LET establishments == _get_establishment_count(d, county_fips, dbup)
        rates == SbaRates(SumRows(d["sba"][county_fips]),
                          SumAmounts(d["sba"][county_fips]), establishments)
    IN [kind |-> IF establishments > 0
                 THEN "sba_metrics" ELSE "sba_metrics_no_establishments",
        recs |-> d["sba"][county_fips], at |-> 0,
        loans_per_1k_firms  |-> rates.loans_per_1k_firms,
        amount_per_1k_firms |-> rates.amount_per_1k_firms]

\* the cache is read before refresh is looked at
SbaServesCache(cached, refresh) == ~IsNone(cached) /\ ~IsEmpty(cached)

get_sba_data(county_fips, refresh, a, dbup) ==
    LET cached == get_cached_data(pkl, meta, "sba_data", county_fips, NoKwargs, now)
        fetch  == refresh \/ _needs_refresh("sba", 30, dbup)
        d == IF fetch THEN StoreAfterFetch("sba", county_fips, a, dbup) ELSE db
        f == IF fetch THEN FreshnessAfterFetch("sba", a, dbup) ELSE freshness
        out == IF ~dbup THEN SampleSba
               ELSE IF IsEmpty(QueryFrame(d, "sba", county_fips)) THEN SampleSba
               ELSE AnnualMetrics(d, county_fips, dbup)
    IN IF SbaServesCache(cached, refresh)
       THEN Effect(db, freshness, pkl, meta, cached, FALSE, FALSE, TRUE)
       ELSE Effect(d, f,
                   CachedPkl(pkl, out, "sba_data", county_fips, NoKwargs),
                   CachedMeta(meta, out, "sba_data", county_fips, NoKwargs, now),
                   out, FALSE, fetch, FALSE)

SampleDict     == Frame("dict", {}, 0)
AgeDict(rows)  == Frame("dict", rows, 0)

\* the body of the try block raises when the query does or when cache_data
\* rejects the dict; the except block then calls cache_data(sample_data) itself
get_firm_age_data(county_fips, refresh, a, dbup) ==
    LET cached == get_cached_data(pkl, meta, "firm_age_data", county_fips, NoKwargs, now)
        fetch  == refresh \/ _needs_refresh("firms", 30, dbup)
        d == IF fetch THEN StoreAfterFetch("firms", county_fips, a, dbup) ELSE db
        f == IF fetch THEN FreshnessAfterFetch("firms", a, dbup) ELSE freshness
        value == IF d["firms"][county_fips] = {} THEN SampleDict
                 ELSE AgeDict(d["firms"][county_fips])
        tryRaises == ~dbup \/ CacheDataRaises(value)
        out == IF tryRaises THEN SampleDict ELSE value
    IN IF ~IsNone(cached)
       THEN Effect(db, freshness, pkl, meta, cached, FALSE, FALSE, TRUE)
       ELSE IF tryRaises /\ CacheDataRaises(SampleDict)
       THEN Effect(d, f, pkl, meta, NoneFrame, TRUE, fetch, FALSE)
       ELSE Effect(d, f,
                   CachedPkl(pkl, out, "firm_age_data", county_fips, NoKwargs),
                   CachedMeta(meta, out, "firm_age_data", county_fips, NoKwargs, now),
                   out, FALSE, fetch, FALSE)

\* db.get_coverage_status: per source, count > 0; False when the query raises
get_coverage_status(county_fips, dbup) ==
    Effect(db, freshness, pkl, meta,
           Frame("coverage", {s \in Sources : dbup /\ db[s][county_fips] # {}}, 0),
           FALSE, FALSE, FALSE)

\* clear_cache() without arguments: every payload and metadata file is unlinked
clear_cache_pkl  == [key \in CacheKeys |-> NoFile]
clear_cache_meta == [key \in CacheKeys |-> NoMeta]

\* an argument of clear_cache left at None
Unset == "None"

\* the file name starts with the parts of prefix, each followed by "_"
StartsWith(key, prefix) ==
    /\ Len(key) > Len(prefix)
    /\ \A i \in DOMAIN prefix : key[i] = prefix[i]

\* the file name has "_" + the parts of inner + "_" somewhere inside
Contains(key, inner) ==
    \E at \in 1..Len(key) :
        /\ at + Len(inner) < Len(key)
        /\ \A i \in DOMAIN inner : key[at + i] = inner[i]

\* glob(f"{pattern}.pkl") and glob(f"{pattern}_meta.json") select the same
\* keys: pattern is "D_C_*", "D_*", "*_C_*" or "*"
GlobMatches(key, data_type, county_fips) ==
    IF data_type # Unset /\ county_fips # Unset
    THEN StartsWith(key, Split(data_type) \o Split(county_fips))
    ELSE IF data_type # Unset THEN StartsWith(key, Split(data_type))
    ELSE IF county_fips # Unset THEN Contains(key, Split(county_fips))
    ELSE TRUE

\* the payload files and the metadata files after clear_cache(data_type, county_fips)
clear_cache_files(files, none, data_type, county_fips) ==
    [key \in DOMAIN files |->
        IF GlobMatches(key, data_type, county_fips) THEN none ELSE files[key]]

-----------------------------------------------------------------------------
(* Bounds *)

MaxLen == 3      \* longest series handed to _z
MaxVal == 3      \* largest entry of such a series
MaxEstab == 2    \* most establishments of a sector
MaxApps == 1     \* most business applications of a sector in one year
MaxRows == 2     \* most rows of an industry or formation table
MaxCnt == 1      \* most rows of an RFP, award or licence table
MaxEmp == 1      \* largest yearly employment total
MaxForm == 1     \* largest yearly applications_total
MaxAmt == 1      \* largest award total, in units of $10M
MaxTime == 48    \* the clock stops after this many hours
MaxLic == 1      \* most recent licences of a sector
MaxRfp == 1      \* most recent RFPs of a sector
MaxLoans == 2    \* most rows of the SBA loan table
MaxCopies == 5   \* most rows of an industry table that carry the same value
MaxEntries == 3  \* most entries of the cache directory driven call by call

SeriesValues == {Num(v, 1) : v \in 0..MaxVal} \cup {NaN, Inf}

RECURSIVE SeqsUpTo(_, _)
SeqsUpTo(S, n) == IF n = 0 THEN {<<>>}
                  ELSE SeqsUpTo(S, n - 1) \cup [1..n -> S]

-----------------------------------------------------------------------------
(* Idle values of the parts a specification does not exercise *)

ZIdle == series = <<>> /\ zout = <<>> /\ zpc = "idle"
SIdle == /\ cbp = <<>> /\ bfs = <<>> /\ lic = <<>> /\ rfp = <<>>
         /\ scores = <<>> /\ spc = "idle"
OIdle == oin = <<>> /\ ores = <<>> /\ opc = "idle"
DIdle == /\ now = 0 /\ pkl = <<>> /\ meta = <<>> /\ db = <<>>
         /\ freshness = <<>> /\ call = <<>> /\ scope = <<>>
RIdle == rpc = <<>> /\ rarg = <<>>
CIdle == cin = <<>> /\ cres = <<>> /\ cpc = "idle"
HIdle == hin = <<>> /\ hres = <<>> /\ hpc = "idle"

-----------------------------------------------------------------------------
(* Specification SpecZ: _z applied to every bounded series *)

\* the series 10, 20, 30
TenTwentyThirty == <<Num(10, 1), Num(20, 1), Num(30, 1)>>

InitZ == /\ series \in SeqsUpTo(SeriesValues, MaxLen) \cup {TenTwentyThirty}
         /\ zout = <<>>
         /\ zpc = "ready"
         /\ SIdle /\ OIdle /\ DIdle /\ RIdle /\ CIdle /\ HIdle

ZScore == /\ zpc = "ready"
          /\ zout' = _z(series)
          /\ zpc' = "done"
          /\ UNCHANGED <<series, svars, ovars, cvars, hvars, dvars, rvars>>

NextZ == ZScore

SpecZ == InitZ /\ [][NextZ]_vars

\* all non-missing entries of the series are finite and equal
AllEqual(s) == \A i, j \in Valid(s) : IsNum(s[i]) /\ IsNum(s[j]) /\ RatEq(s[i], s[j])

RECURSIVE SumOf(_, _)
SumOf(s, i) == IF i = 0 THEN Num(0, 1) ELSE RatAdd(s[i], SumOf(s, i - 1))

Minus(x, y) == RatAdd(x, Num(-y.n, y.d))

RECURSIVE SumSqDev(_, _, _)
SumSqDev(s, m, i) ==
    IF i = 0 THEN Num(0, 1)
    ELSE RatAdd(RatMul(Minus(s[i], m), Minus(s[i], m)), SumSqDev(s, m, i - 1))

AllFinite(s) == \A i \in DOMAIN s : IsNum(s[i])

\* C24: for a series of at least 2 values that are not all equal, _z returns
\* at each position (x - mean) / sigma, where sigma^2 is the sum of the squared
\* distances to the mean divided by N (not N - 1); for 10, 20, 30 the mean is
\* 20, sigma^2 is 200/3 and the outputs are -10/sigma, 0, +10/sigma.
C24_PopulationZ ==
    (zpc = "done" /\ Len(series) >= 2 /\ AllFinite(series) /\ ~AllEqual(series)) =>
        LET N      == Len(series)
            mean   == RatDiv(SumOf(series, N), Num(N, 1))
            sigma2 == RatDiv(SumSqDev(series, mean, N), Num(N, 1))
        IN /\ DOMAIN zout = DOMAIN series
           /\ \A i \in DOMAIN series :
                 LET dev == Minus(series[i], mean)
                 IN /\ zout[i].k = "num"
                    /\ zout[i].rad > 0
                    \* zout[i] = a / sqrt(rad) = dev / sqrt(sigma2)
                    /\ (zout[i].a > 0) <=> (dev.n > 0)
                    /\ (zout[i].a < 0) <=> (dev.n < 0)
                    /\ RatEq(RatMul(Num(zout[i].a * zout[i].a, 1), sigma2),
                             RatMul(Num(zout[i].rad, 1), RatMul(dev, dev)))
           /\ series = TenTwentyThirty =>
                 /\ mean = Num(20, 1)
                 /\ sigma2 = Num(200, 3)
                 /\ zout[1].a < 0 /\ zout[1].a * zout[1].a * 200 = 100 * 3 * zout[1].rad
                 /\ zout[2].a = 0
                 /\ zout[3].a > 0 /\ zout[3].a * zout[3].a * 200 = 100 * 3 * zout[3].rad

C24_Witness ==
    /\ zpc = "done"
    /\ series = TenTwentyThirty
    /\ zout[1].a < 0 /\ zout[2].a = 0 /\ zout[3].a > 0

-----------------------------------------------------------------------------
(* Specification SpecScore: industry_scores on every bounded set of tables *)

MaybeRow(n) == {NoRow} \cup {Row(v) : v \in 0..n}

InitScore ==
    /\ cbp \in [Sectors -> MaybeRow(MaxEstab)]
    /\ bfs \in [Sectors -> [prev : MaybeRow(MaxApps), cur : MaybeRow(MaxApps)]]
    /\ lic \in [Sectors -> 0..MaxLic]
    /\ rfp \in [Sectors -> 0..MaxRfp]
    /\ scores = <<>>
    /\ spc = "ready"
    /\ ZIdle /\ OIdle /\ DIdle /\ RIdle /\ CIdle /\ HIdle

IndustryScores ==
    /\ spc = "ready"
    /\ scores' = industry_scores(cbp, bfs, lic, rfp)
    /\ spc' = "done"
    /\ UNCHANGED <<cbp, bfs, lic, rfp, zvars, ovars, cvars, hvars, dvars, rvars>>

NextScore == IndustryScores

SpecScore == InitScore /\ [][NextScore]_vars

\* position of sector s in the joined frame
FramePos(c, s) == CHOOSE i \in DOMAIN EstabSectors(c) : EstabSectors(c)[i] = s

\* the signals the sources actually hold for sector s
PresentApps(b, s) == ~IsNaN(AppsYoy(b, s))
PresentLic(l, s)  == l[s] > 0
PresentRfp(r, s)  == r[s] > 0

IncludedWeight(s) ==
      (IF PresentApps(bfs, s) THEN W_bfs_apps_yoy ELSE 0)
    + (IF PresentLic(lic, s) THEN W_licenses_per_1k ELSE 0)
    + (IF PresentRfp(rfp, s) THEN W_rfps_per_1k ELSE 0)

IncludedSum(s) ==
    LET i == FramePos(cbp, s)
    IN   (IF PresentApps(bfs, s)
          THEN W_bfs_apps_yoy * ZFix(_z(ColApps(cbp, bfs))[i]) ELSE 0)
       + (IF PresentLic(lic, s)
          THEN W_licenses_per_1k * ZFix(_z(ColLic(cbp, lic))[i]) ELSE 0)
       + (IF PresentRfp(rfp, s)
          THEN W_rfps_per_1k * ZFix(_z(ColRfp(cbp, rfp))[i]) ELSE 0)

\* C1: each industry's demand_score is the weighted sum of the z-scores of the
\* signals present for it, divided by the sum of the weights of those signals.
C1_Renormalised ==
    spc = "done" =>
        \A i \in DOMAIN scores :
            LET s == scores[i].naics
            IN (scores[i].demand_score.k = "num" /\ IncludedWeight(s) > 0)
                  => scores[i].demand_score.v * IncludedWeight(s) = 100 * IncludedSum(s)

\* C12: apps_yoy of an industry is (current - previous)/previous when the
\* previous-year count is positive and 0 when it is zero or absent; no
\* apps_yoy and no demand_score is infinite or undefined.
C12_FiniteGrowth ==
    (spc = "done" /\ ~CbpEmpty(cbp)) =>
        /\ \A i \in DOMAIN EstabSectors(cbp) :
             LET s == EstabSectors(cbp)[i]
                 x == ColApps(cbp, bfs)[i]
             IN /\ IsNum(x)
                /\ (bfs[s].prev.has /\ bfs[s].prev.v > 0 /\ bfs[s].cur.has)
                      => RatEq(x, Num(bfs[s].cur.v - bfs[s].prev.v, bfs[s].prev.v))
                /\ (~bfs[s].prev.has \/ bfs[s].prev.v = 0) => RatEq(x, Num(0, 1))
        /\ \A i \in DOMAIN scores : scores[i].demand_score.k = "num"

\* C25: industry_scores returns exactly one row for every sector present in the
\* latest CBP year (the joins neither duplicate nor drop a sector) and no other
\* row, no row has a greater demand_score than a row above it, and with no CBP
\* data the table has no rows.
C25_RankedTable ==
    spc = "done" =>
        /\ CbpEmpty(cbp) => scores = <<>>
        /\ \A s \in Sectors :
              Cardinality({i \in DOMAIN scores : scores[i].naics = s})
                 = (IF cbp[s].has THEN 1 ELSE 0)
        /\ \A i \in DOMAIN scores : scores[i].naics \in Sectors
        /\ \A i, j \in DOMAIN scores :
              (i < j /\ scores[i].demand_score.k = "num" /\ scores[j].demand_score.k = "num")
                 => scores[i].demand_score.v >= scores[j].demand_score.v

\* both sectors have BFS rows in both years, licences and RFPs, and the sort
\* has moved the second sector above the first
C25_Witness ==
    /\ spc = "done"
    /\ \A s \in Sectors : cbp[s].has /\ bfs[s].prev.has /\ bfs[s].cur.has
    /\ \E s \in Sectors : lic[s] > 0
    /\ Len(scores) = 2
    /\ scores[1].naics = SectorSeq[2]
    /\ scores[1].demand_score.k = "num"
    /\ scores[2].demand_score.k = "num"
    /\ scores[1].demand_score.v > scores[2].demand_score.v

-----------------------------------------------------------------------------
(* Specification SpecOpp: calculate_opportunity_score on every bounded input *)

Table(n, cols, years, prev, recent, amount) ==
    [frame |-> TRUE, n |-> n, cols |-> cols, years |-> years, prev |-> prev,
     recent |-> recent, amount |-> amount, dtype |-> "object"]

EmptyTable == Table(0, TRUE, 0, 0, 0, 0)

\* an argument that is not a DataFrame, such as None
NotAFrame == [EmptyTable EXCEPT !.frame = FALSE]

IndustryTables ==
    {EmptyTable}
    \cup {Table(n, FALSE, 0, 0, 0, 0) : n \in 1..MaxRows}
    \cup {Table(n, TRUE, 1, 0, e, 0) : n \in 1..MaxRows, e \in 0..MaxEmp}
    \cup {Table(n, TRUE, 2, p, e, 0) : n \in 2..MaxRows, p \in 0..MaxEmp, e \in 0..MaxEmp}

\* the date column holds date strings as the store returns them, or datetimes
DatedTables ==
    {EmptyTable}
    \cup {Table(n, FALSE, 0, 0, 0, 0) : n \in 1..MaxCnt}
    \cup {[t EXCEPT !.dtype = d] :
            t \in {u \in {Table(n, TRUE, 0, 0, r, 0) : n \in 1..MaxCnt, r \in 0..MaxCnt} :
                     u.recent <= u.n},
            d \in {"object", "datetime64"}}

AwardTables ==
    {EmptyTable}
    \cup {Table(n, FALSE, 0, 0, 0, 0) : n \in 1..MaxCnt}
    \cup {Table(n, TRUE, 0, 0, 0, a) : n \in 1..MaxCnt, a \in 0..MaxAmt}

FormationTables ==
    {EmptyTable}
    \cup {Table(n, FALSE, 0, 0, 0, 0) : n \in 1..MaxRows}
    \cup {Table(1, TRUE, 1, 0, e, 0) : e \in 0..MaxForm}
    \cup {Table(n, TRUE, 2, p, e, 0) : n \in 2..MaxRows, p \in 0..MaxForm, e \in 0..MaxForm}

InitOpp ==
    /\ oin \in [industry : IndustryTables \cup {NotAFrame},
                rfp : DatedTables \cup {NotAFrame},
                awards : AwardTables \cup {NotAFrame},
                formation : FormationTables \cup {NotAFrame},
                license : DatedTables \cup {NotAFrame}]
    /\ ores = <<>>
    /\ opc = "ready"
    /\ ZIdle /\ SIdle /\ DIdle /\ RIdle /\ CIdle /\ HIdle

OpportunityScore ==
    /\ opc = "ready"
    /\ ores' = calculate_opportunity_score(oin)
    /\ oin' = InputsAfter(oin)
    /\ opc' = "done"
    /\ UNCHANGED <<cvars, hvars, zvars, svars, dvars, rvars>>

NextOpp == OpportunityScore

SpecOpp == InitOpp /\ [][NextOpp]_vars

\* the inputs that qualify as a signal: a non-empty table, and more than one
\* row for the industry table
Qualifying(in) ==
    {nm \in {"industry", "rfp", "awards", "formation", "license"} :
        IF nm = "industry" THEN in[nm].n > 1 ELSE in[nm].n > 0}

\* every argument is a DataFrame
AllFrames(in) == \A nm \in DOMAIN in : in[nm].frame

\* C2: with fewer than 2 qualifying inputs the opportunity score is None and
\* the methodology says that the signals are insufficient.
C2_MinimumSignals ==
    (opc = "done" /\ AllFrames(oin) /\ Cardinality(Qualifying(oin)) < 2)
        => /\ ores.opportunity_score = NoScore
           /\ ores.methodology = Insufficient

C2_Witness ==
    /\ opc = "done"
    /\ Qualifying(oin) = {"rfp"}
    /\ oin.rfp.cols /\ oin.rfp.recent > 0
    /\ ores.signals_count = 1
    /\ ores.components[1].signal.n > 0
    /\ ores.opportunity_score = NoScore
    /\ ores.methodology = Insufficient

SignalNames == {"employment_growth", "rfp_activity", "award_activity",
                "formation_activity", "license_activity"}

\* the weight the code declares for a signal, in hundredths
DeclaredWeight(name) ==
    CASE name = "employment_growth"  -> W_employment_growth
      [] name = "rfp_activity"       -> W_rfp_activity
      [] name = "award_activity"     -> W_award_activity
      [] name = "formation_activity" -> W_formation_activity
      [] name = "license_activity"   -> W_license_activity

\* the names and the values of the returned 'signals' dict
SignalKeys == {p[1] : p \in ores.signals}
SignalValue(name) == (CHOOSE p \in ores.signals : p[1] = name)[2]

UsedWeight(name) == IF name \in SignalKeys THEN DeclaredWeight(name) ELSE 0
UsedTerm(name) ==
    IF name \in SignalKeys THEN RatMul(SignalValue(name), Num(DeclaredWeight(name), 1))
    ELSE Num(0, 1)

\* C19: with at least 2 included signals the weighted sum is divided by the
\* sum of the weights of the included signals, not by the total of the five
\* declared weights; included signals that all have the value s give 100 * s
\* whichever signals are absent.
C19_DividesByUsedWeights ==
    (opc = "done" /\ ores.signals_count >= 2) =>
        LET used == UsedWeight("employment_growth") + UsedWeight("rfp_activity")
                    + UsedWeight("award_activity") + UsedWeight("formation_activity")
                    + UsedWeight("license_activity")
            sum  == RatAdd(UsedTerm("employment_growth"),
                    RatAdd(UsedTerm("rfp_activity"),
                    RatAdd(UsedTerm("award_activity"),
                    RatAdd(UsedTerm("formation_activity"),
                           UsedTerm("license_activity")))))
            average == RatDiv(RatMul(sum, Num(100, 1)), Num(used, 1))
        IN /\ used > 0
           /\ ores.opportunity_score = RoundedOrNone(average)
           /\ \A name \in SignalKeys :
                 (\A other \in SignalKeys : SignalValue(other) = SignalValue(name)) =>
                     ores.opportunity_score
                         = RoundedOrNone(RatMul(SignalValue(name), Num(100, 1)))

\* two neutral signals of declared weights 0.2 and 0.15, the other three absent
C19_Witness ==
    /\ opc = "done"
    /\ SignalKeys = {"award_activity", "formation_activity"}
    /\ SignalValue("award_activity") = Num(NeutralSignal, 1)
    /\ SignalValue("formation_activity") = Num(NeutralSignal, 1)
    /\ ores.opportunity_score = Score(10 * 100 * NeutralSignal)

\* the signal an input feeds
SignalNameOf(nm) ==
    CASE nm = "industry"  -> "employment_growth"
      [] nm = "rfp"       -> "rfp_activity"
      [] nm = "awards"    -> "award_activity"
      [] nm = "formation" -> "formation_activity"
      [] nm = "license"   -> "license_activity"

\* C20: 'components' has one (name, value, declared weight) entry for each
\* qualifying input and none for any other signal, the keys of 'signals' are
\* the component names, and signals_count is the number of components; on the
\* error path components is empty and signals_count is 0.
C20_ComponentsAreSignalsUsed ==
    opc = "done" =>
        LET cs == ores.components
            names == {cs[i].name : i \in DOMAIN cs}
        IN IF AllFrames(oin)
           THEN /\ names = {SignalNameOf(nm) : nm \in Qualifying(oin)}
                /\ Cardinality(names) = Len(cs)
                /\ \A i \in DOMAIN cs :
                      /\ cs[i].weight = DeclaredWeight(cs[i].name)
                      /\ cs[i].signal = SignalValue(cs[i].name)
                /\ SignalKeys = names
                /\ Cardinality(ores.signals) = Len(cs)
                /\ ores.signals_count = Len(cs)
           ELSE /\ cs = <<>>
                /\ ores.signals = {}
                /\ ores.signals_count = 0
                /\ ores.opportunity_score = NoScore

\* a one-row industry table beside two qualifying inputs: two components
C20_Witness ==
    /\ opc = "done"
    /\ AllFrames(oin)
    /\ oin.industry.n = 1
    /\ Qualifying(oin) = {"rfp", "license"}
    /\ ores.signals_count = 2
    /\ ores.components[1].name = "rfp_activity"
    /\ ores.components[2].name = "license_activity"

\* C23: calculate_opportunity_score leaves every table passed to it unchanged,
\* same columns and same values, so a second call on the same objects sees the
\* same inputs.
C23_InputsUnchanged ==
    [][(opc = "ready" /\ opc' = "done") => oin' = oin]_vars

\* C28: the opportunity score is None exactly when fewer than 2 signals were
\* available or the calculation failed; with 2 or more signals and no failure
\* it is a number, also when the weighted average is 0, and the methodology
\* names the number of signals.
C28_NoneOnlyWhenInsufficient ==
    opc = "done" =>
        /\ (ores.opportunity_score = NoScore)
              <=> (ores.signals_count < MinSignals \/ ores.methodology = CalculationFailed)
        /\ (ores.signals_count >= MinSignals /\ ores.methodology # CalculationFailed)
              => /\ ores.opportunity_score.k = "num"
                 /\ ores.methodology = WeightedOf(ores.signals_count)

\* C29: every component signal lies in [0, 100], and the opportunity score,
\* when it is not None, lies in [0, 100] as well.
C29_ScoreInRange ==
    opc = "done" =>
        /\ \A i \in DOMAIN ores.components :
              /\ RatLe(Num(0, 1), ores.components[i].signal)
              /\ RatLe(ores.components[i].signal, Num(MaxSignal, 1))
        /\ ores.opportunity_score.k = "num" =>
              /\ 0 <= ores.opportunity_score.tenths
              /\ ores.opportunity_score.tenths <= 10 * MaxSignal

-----------------------------------------------------------------------------
(* Specification SpecCap: calculate_capital_access_index on every bounded input *)

\* sba_data: n rows, with an amount column summing to amount, or without one
LoanTable(n, has_amount, amount) == [n |-> n, has_amount |-> has_amount, amount |-> amount]

\* total loan amounts, in dollars: negative, zero, inside and above the
\* reference range once divided by the establishments
CapAmounts == {-1000, 0, 100000, 300000}

LoanTables ==
    {LoanTable(0, TRUE, 0)}
    \cup {LoanTable(n, FALSE, 0) : n \in 1..MaxLoans}
    \cup {LoanTable(n, TRUE, a) : n \in 1..MaxLoans, a \in CapAmounts}

CapEstablishments == {0, 1, 40, 100}

\* amount_weight and count_weight, in hundredths; 60 and 40 are the defaults
CapWeights == {-20, 0, 40, 60, 100}

InitCap ==
    /\ cin \in [sba_data : LoanTables, establishments_count : CapEstablishments,
                amount_weight : CapWeights, count_weight : CapWeights]
    /\ cres = <<>>
    /\ cpc = "ready"
    /\ ZIdle /\ SIdle /\ OIdle /\ DIdle /\ RIdle /\ HIdle

CapitalAccessIndex ==
    /\ cpc = "ready"
    /\ cres' = calculate_capital_access_index(cin.sba_data, cin.establishments_count,
                                              cin.amount_weight, cin.count_weight)
    /\ cpc' = "done"
    /\ UNCHANGED <<cin, zvars, svars, ovars, hvars, dvars, rvars>>

NextCap == CapitalAccessIndex

SpecCap == InitCap /\ [][NextCap]_vars

\* C11: with 0 establishments every per-1,000 rate is 0.0 whatever the count,
\* and the capital access index is 0.0 with the insufficient-data text and not
\* an error; with a positive number of establishments the rate is
\* 1000*count/establishments.
C11_ZeroExposure ==
    LET e      == cin.establishments_count
        n      == cin.sba_data.n
        amount == cin.sba_data.amount
        sba    == SbaRates(n, amount, e)
    IN /\ e = 0 =>
            /\ Per1k(n, e) = Num(0, 1)
            /\ sba.loans_per_1k_firms = Num(0, 1)
            /\ sba.amount_per_1k_firms = Num(0, 1)
            /\ cpc = "done" =>
                  /\ cres.index_score = 0
                  /\ cres.loans_per_1k_firms = 0
                  /\ cres.amount_per_1k_firms = 0
                  /\ cres.methodology = InsufficientData
       /\ e > 0 =>
            /\ RatEq(Per1k(n, e), Num(1000 * n, e))
            /\ RatEq(sba.loans_per_1k_firms, Num(1000 * n, e))
            /\ RatEq(sba.amount_per_1k_firms, Num(1000 * amount, e))

\* loans counted against no establishments
C11_Witness ==
    /\ cpc = "done"
    /\ cin.establishments_count = 0
    /\ cin.sba_data.n > 0 /\ cin.sba_data.amount > 0
    /\ cres.index_score = 0
    /\ cres.methodology = InsufficientData

\* C16: for weights with a positive sum, loan data and a positive number of
\* establishments, the index before rounding is
\* 100 * (amount_weight * n_amount + count_weight * n_loans) /
\* (amount_weight + count_weight), clamped to [0, 100].
C16_WeightedAverage ==
    (cpc = "done" /\ cres.has_metrics /\ cin.amount_weight + cin.count_weight > 0) =>
        LET weighted == RatAdd(RatMul(cres.normalized_amount, Num(cin.amount_weight, 1)),
                               RatMul(cres.normalized_loans, Num(cin.count_weight, 1)))
            average  == RatDiv(weighted, Num(cin.amount_weight + cin.count_weight, 1))
        IN RatEq(cres.index_unrounded, ClampIndex(average))

\* ranges with min < max: the two reference ranges and two others
NormRanges == {<<0, LoansPer1kMax>>, <<0, AmountPer1kMax>>, <<-1000, 1000>>, <<100000, 300000>>}

InUnit(x) == ~RatLt(x, Num(0, 1)) /\ ~RatLt(Num(1, 1), x)

\* C17: for min < max _min_max_normalize returns a value in [0, 1], 0 for a
\* value at or below min and 1 for a value at or above max; the index built
\* from the normalized metrics is therefore in [0, 100].
C17_NormalizedInRange ==
    (cpc = "done" /\ cres.has_metrics) =>
        LET e      == cin.establishments_count
            values == {Rat(cin.sba_data.n * PerThousand, e),
                       Rat(cin.sba_data.amount * PerThousand, e),
                       Num(cin.sba_data.amount, 1)}
        IN /\ \A v \in values, r \in NormRanges :
                LET x == _min_max_normalize(v, r[1], r[2])
                IN /\ InUnit(x)
                   /\ ~RatLt(Num(r[1], 1), v) => x = Num(0, 1)
                   /\ ~RatLt(v, Num(r[2], 1)) => x = Num(1, 1)
           /\ InUnit(RatDiv(cres.normalized_loans, Num(Percent, 1)))
           /\ InUnit(RatDiv(cres.normalized_amount, Num(Percent, 1)))
           /\ InUnit(RatDiv(cres.index_unrounded, Num(Percent, 1)))
           /\ cres.index_score >= 0 /\ cres.index_score <= 10 * Percent

\* a negative amount below the range and a loan rate above it
C17_Witness ==
    /\ cpc = "done"
    /\ cres.has_metrics
    /\ cin.sba_data.amount < 0
    /\ cin.sba_data.n * PerThousand > LoansPer1kMax * cin.establishments_count
    /\ cres.normalized_amount = Num(0, 1)
    /\ cres.normalized_loans = Num(Percent, 1)

\* reference ranges with min >= max
BadRanges == {<<0, 0>>, <<LoansPer1kMax, LoansPer1kMax>>, <<LoansPer1kMax, 0>>}

\* C18: a negative amount_weight or count_weight, and a reference range with
\* min >= max, are rejected with an error: the call yields no index and no
\* normalized value.
C18_InvalidConfigRejected ==
    (cpc = "done" /\ cin.sba_data.n > 0 /\ cin.establishments_count > 0) =>
        /\ (cin.amount_weight < 0 \/ cin.count_weight < 0) =>
               ~cres.has_metrics /\ cres.methodology = CalculationError
        /\ \A r \in BadRanges :
               ~IsNum(_min_max_normalize(Num(cin.sba_data.n, 1), r[1], r[2]))

-----------------------------------------------------------------------------
(* Specification SpecHHI: calculate_market_concentration on every bounded table *)

\* metric values: missing, negative, zero and three positive ones
HhiValues == {NaN, Num(-7, 1), Num(0, 1), Num(1, 1), Num(17, 1), Num(30, 1)}

\* k1 rows of value v1 followed by k2 rows of value v2
TwoGroups(v1, k1, v2, k2) == [i \in 1..(k1 + k2) |-> IF i <= k1 THEN v1 ELSE v2]

MarketTables ==
    {[has_metric |-> m, rows |-> TwoGroups(v1, k1, v2, k2)] :
        m \in BOOLEAN, v1 \in HhiValues, k1 \in 0..MaxCopies,
        v2 \in HhiValues, k2 \in 0..MaxCopies}

InitHHI ==
    /\ hin \in MarketTables
    /\ hres = <<>>
    /\ hpc = "ready"
    /\ ZIdle /\ SIdle /\ OIdle /\ DIdle /\ RIdle /\ CIdle

MarketConcentration ==
    /\ hpc = "ready"
    /\ hres' = calculate_market_concentration(hin)
    /\ hpc' = "done"
    /\ UNCHANGED <<hin, zvars, svars, ovars, cvars, dvars, rvars>>

NextHHI == MarketConcentration

SpecHHI == InitHHI /\ [][NextHHI]_vars

\* the number of rows of the table that carry the value v
CopiesOf(v) == Cardinality({i \in DOMAIN hin.rows : hin.rows[i] = Num(v, 1)})

\* the table has the metric column and at least one positive value
HasPositive == hin.has_metric /\ \E i \in DOMAIN hin.rows : IsNum(hin.rows[i]) /\ hin.rows[i].n > 0

\* C13: the returned market_structure and the returned hhi agree with the
\* thresholds: below 1500 'Competitive', from 1500 and below 2500 'Moderately
\* Concentrated', from 2500 'Highly Concentrated'; one entity returns 10000 and
\* four equal entities return 2500, both 'Highly Concentrated'.
C13_StructureMatchesHhi ==
    (hpc = "done" /\ HasPositive) =>
        /\ hres.hhi < CompetitiveBelow => hres.market_structure = "Competitive"
        /\ (hres.hhi >= CompetitiveBelow /\ hres.hhi < ModerateBelow) =>
               hres.market_structure = "Moderately Concentrated"
        /\ hres.hhi >= ModerateBelow => hres.market_structure = "Highly Concentrated"
        /\ Len(ValidRows(hin.rows)) = 1 =>
               hres.hhi = HhiScale /\ hres.market_structure = "Highly Concentrated"
        /\ (\E v \in {1, 17, 30} : CopiesOf(v) = 4 /\ Len(ValidRows(hin.rows)) = 4) =>
               hres.hhi = ModerateBelow /\ hres.market_structure = "Highly Concentrated"

\* C14: with at least one positive value, hhi is 10000 * (sum of v^2) /
\* (sum of v)^2 over the positive, non-missing values only, whatever zero,
\* negative or missing rows the table also has, and lies in (0, 10000].  hhi is
\* the value computed from the market shares, which the result carries rounded
\* to a whole number.
C14_HhiFormula ==
    (hpc = "done" /\ HasPositive) =>
        LET squares == CopiesOf(1) + 289 * CopiesOf(17) + 900 * CopiesOf(30)
            total   == CopiesOf(1) + 17 * CopiesOf(17) + 30 * CopiesOf(30)
            hhi     == hres.hhi_unrounded
        IN /\ hhi = Rat(10000 * squares, total * total)
           /\ hhi.n > 0
           /\ hhi.n <= 10000 * hhi.d
           /\ hres.hhi = RoundUnits(hhi)
           /\ hres.total_firms = CopiesOf(1) + CopiesOf(17) + CopiesOf(30)

\* two firms of 30 among rows with a negative value: hhi is 5000
C14_Witness ==
    /\ hpc = "done"
    /\ hin.has_metric
    /\ CopiesOf(-7) >= 1
    /\ CopiesOf(30) = 2
    /\ hres.hhi_unrounded = Num(5000, 1)
    /\ hres.total_firms = 2

\* C15: an empty table, a table without the metric column and a table whose
\* metric values are all non-positive or missing yield hhi = 0 and the label
\* 'No data', never another label.
C15_DegenerateIsNoData ==
    (hpc = "done" /\ (hin.rows = <<>> \/ ~hin.has_metric \/ ~HasPositive)) =>
        /\ hres.hhi = 0
        /\ hres.market_structure = "No data"

-----------------------------------------------------------------------------
(* Specification SpecCache: CacheManager called directly, entry by entry *)

Year2022 == <<"year", IntVal("2022")>>

\* the keyword parameters of a call, in the order they are passed
KwargChoices ==
    {NoKwargs, NaicsLevel,
     <<(<<"naics_level", StrVal("2")>>)>>,
     <<(<<"naics", StrVal("level_2")>>)>>,
     <<(<<"naics_level", IntVal("2")>>), Year2022>>,
     <<Year2022, (<<"naics_level", IntVal("2")>>)>>}

CacheCalls ==
    {CallOf(dt, c, kw) : dt \in {"cbp_data", "sba_data"}, c \in Counties, kw \in KwargChoices}

KeyOfCall(k) == _get_cache_key(k.data_type, k.county_fips, k.kwargs)

CacheFiles == {KeyOfCall(k) : k \in CacheCalls}

\* what cache_data is handed: None, an empty frame, a frame of one record list
CacheFrames == {NoneFrame, EmptyFrame, Frame("rows", {"r1"}, 0)}

DirectCall(op, k, data, result) ==
    [op |-> op, data_type |-> k.data_type, county_fips |-> k.county_fips,
     kwargs |-> k.kwargs, data |-> data, result |-> result]

InitCache ==
    /\ now = 0
    /\ pkl = [key \in CacheFiles |-> NoFile]
    /\ meta = [key \in CacheFiles |-> NoMeta]
    /\ call = DirectCall("none", CallOf(Unset, Unset, NoKwargs), NoneFrame, NoneFrame)
    /\ db = <<>> /\ freshness = <<>> /\ scope = <<>>
    /\ ZIdle /\ SIdle /\ OIdle /\ CIdle /\ HIdle /\ RIdle

\* cache_data(data, data_type, county_fips, **kwargs)
CacheDataCall ==
    \E k \in CacheCalls, data \in CacheFrames :
        /\ \/ pkl[KeyOfCall(k)].exists
           \/ Cardinality({key \in CacheFiles : pkl[key].exists}) < MaxEntries
        /\ pkl' = CachedPkl(pkl, data, k.data_type, k.county_fips, k.kwargs)
        /\ meta' = CachedMeta(meta, data, k.data_type, k.county_fips, k.kwargs, now)
        /\ call' = DirectCall("cache_data", k, data, NoneFrame)
        /\ UNCHANGED <<now, db, freshness, scope, zvars, svars, ovars, cvars, hvars, rvars>>

\* get_cached_data(data_type, county_fips, **kwargs)
GetCachedDataCall ==
    \E k \in CacheCalls :
        /\ call' = DirectCall("get_cached_data", k, NoneFrame,
                              get_cached_data(pkl, meta, k.data_type, k.county_fips,
                                              k.kwargs, now))
        /\ UNCHANGED <<now, pkl, meta, db, freshness, scope,
                       zvars, svars, ovars, cvars, hvars, rvars>>

\* clear_cache(data_type, county_fips), either argument possibly None
ClearCacheCall ==
    \E dt \in {"cbp_data", "sba_data", Unset}, c \in Counties \cup {Unset} :
        /\ pkl' = clear_cache_files(pkl, NoFile, dt, c)
        /\ meta' = clear_cache_files(meta, NoMeta, dt, c)
        /\ call' = DirectCall("clear_cache", CallOf(dt, c, NoKwargs), NoneFrame, NoneFrame)
        /\ UNCHANGED <<now, db, freshness, scope, zvars, svars, ovars, cvars, hvars, rvars>>

NextCache == CacheDataCall \/ GetCachedDataCall \/ ClearCacheCall

SpecCache == InitCache /\ [][NextCache]_vars

\* the set of name/value pairs of the keyword parameters
KwargSet(kwargs) == {kwargs[i] : i \in DOMAIN kwargs}

SameParameters(a, b) ==
    /\ a.data_type = b.data_type
    /\ a.county_fips = b.county_fips
    /\ KwargSet(a.kwargs) = KwargSet(b.kwargs)

\* C21: two calls address the same cache entry if and only if they have the
\* same data_type, the same county_fips and the same set of keyword name/value
\* pairs, whatever the order the keywords are passed in: what cache_data stored
\* for one call is what get_cached_data returns for the other exactly then.
C21_KeyComposition ==
    (call.op = "cache_data" /\ ~CacheDataSkips(call.data)) =>
        \A b \in CacheCalls :
            /\ (KeyOfCall(b) = KeyOfCall(call)) <=> SameParameters(call, b)
            /\ SameParameters(call, b) =>
                  get_cached_data(pkl, meta, b.data_type, b.county_fips, b.kwargs, now)
                      = call.data

\* get_cached_data finds nothing for the call b
MissFor(p, m, b, t) == IsNone(get_cached_data(p, m, b.data_type, b.county_fips, b.kwargs, t))

\* C27: after clear_cache(data_type=D, county_fips=C) every get_cached_data(D,
\* C, ...) is a miss, with or without extra parameters, and stays one until
\* cache_data writes that key; the entries of another data type or another
\* county are left as they were.
C27_SelectiveClear ==
    /\ [][(ClearCacheCall /\ call'.data_type # Unset /\ call'.county_fips # Unset) =>
             \A b \in CacheCalls :
                IF b.data_type = call'.data_type /\ b.county_fips = call'.county_fips
                THEN MissFor(pkl', meta', b, now')
                ELSE /\ pkl'[KeyOfCall(b)] = pkl[KeyOfCall(b)]
                     /\ meta'[KeyOfCall(b)] = meta[KeyOfCall(b)]]_vars
    /\ [][\A b \in CacheCalls :
             (MissFor(pkl, meta, b, now) /\ ~MissFor(pkl', meta', b, now')) =>
                 (CacheDataCall /\ KeyOfCall(call') = KeyOfCall(b))]_vars

-----------------------------------------------------------------------------
(* Specification Spec: the DataService getters over the cache and the store *)

\* the clock advances in steps of half a day
TickHours == cache_duration("sam_data")

\* The getters of different sources share no table, no data_freshness row and
\* no cache key, so a behaviour exercises one getter, on the counties of its
\* scope; get_sba_data, whose cache entries multiply the states, on one county.
\* One scope mixes a cached getter with a getter that writes the store.
Methods == {"get_industry_data", "get_demand_signals", "get_sba_data",
            "get_firm_age_data", "get_rfp_data", "get_awards_data",
            "get_license_data", "get_formation_data"}

Scopes == {[methods |-> {m}, counties |-> Counties] : m \in Methods \ {"get_sba_data"}}
          \cup {[methods |-> {"get_sba_data"}, counties |-> {c}] : c \in Counties}
          \cup {[methods |-> {"get_industry_data", "get_rfp_data"}, counties |-> {c}] :
                   c \in Counties}

EmptyStore == [s \in Sources |-> [c \in Counties |-> {}]]

\* the store as found at start-up: CBP rows may be left from an earlier run
InitialStores == {EmptyStore, [EmptyStore EXCEPT !["cbp"] = [c \in Counties |-> {"r1"}]]}

NoCall == [op |-> "none", county |-> "none", refresh |-> FALSE, adapter |-> "none",
           result |-> NoneFrame, raised |-> FALSE, fetched |-> FALSE, hit |-> FALSE]

Init ==
    /\ scope \in Scopes
    /\ now = 0
    /\ pkl = [key \in CacheKeys |-> NoFile]
    /\ meta = [key \in CacheKeys |-> NoMeta]
    /\ db \in InitialStores
    /\ ("get_sba_data" \notin scope.methods => db = EmptyStore)
    /\ freshness = [s \in Sources |-> Never]
    /\ call = NoCall
    /\ ZIdle /\ SIdle /\ OIdle /\ RIdle /\ CIdle /\ HIdle

\* the step of a DataService call with effect e
Apply(op, c, refresh, a, e) ==
    /\ db' = e.db
    /\ freshness' = e.freshness
    /\ pkl' = e.pkl
    /\ meta' = e.meta
    /\ call' = [op |-> op, county |-> c, refresh |-> refresh,
                adapter |-> IF e.fetched THEN a ELSE "none",
                result |-> e.result, raised |-> e.raised,
                fetched |-> e.fetched, hit |-> e.hit]
    /\ UNCHANGED <<now, scope, zvars, svars, ovars, cvars, hvars, rvars>>

Tick ==
    /\ now + TickHours <= MaxTime
    /\ now' = now + TickHours
    /\ UNCHANGED <<pkl, meta, db, freshness, call, scope, zvars, svars, ovars, cvars, hvars, rvars>>

GetIndustryData ==
    /\ "get_industry_data" \in scope.methods
    /\ \E c \in scope.counties, refresh \in BOOLEAN, a \in AdapterResults :
          Apply("get_industry_data", c, refresh, a, get_industry_data(c, refresh, a))

GetDemandSignals ==
    /\ "get_demand_signals" \in scope.methods
    /\ \E c \in scope.counties, refresh \in BOOLEAN :
          Apply("get_demand_signals", c, refresh, "none", get_demand_signals(c, refresh))

GetSbaData ==
    /\ "get_sba_data" \in scope.methods
    /\ \E c \in scope.counties, refresh \in BOOLEAN, a \in AdapterResults,
          dbup \in BOOLEAN :
          Apply("get_sba_data", c, refresh, a, get_sba_data(c, refresh, a, dbup))

GetFirmAgeData ==
    /\ "get_firm_age_data" \in scope.methods
    /\ \E c \in scope.counties, refresh \in BOOLEAN, a \in AdapterResults,
          dbup \in BOOLEAN :
          Apply("get_firm_age_data", c, refresh, a, get_firm_age_data(c, refresh, a, dbup))

GetRfpData ==
    /\ "get_rfp_data" \in scope.methods
    /\ \E c \in scope.counties, refresh \in BOOLEAN, a \in AdapterResults,
          dbup \in BOOLEAN :
          Apply("get_rfp_data", c, refresh, a, get_rfp_data(c, refresh, a, dbup))

GetAwardsData ==
    /\ "get_awards_data" \in scope.methods
    /\ \E c \in scope.counties, refresh \in BOOLEAN, a \in AdapterResults,
          dbup \in BOOLEAN :
          Apply("get_awards_data", c, refresh, a, get_awards_data(c, refresh, a, dbup))

GetLicenseData ==
    /\ "get_license_data" \in scope.methods
    /\ \E c \in scope.counties, refresh \in BOOLEAN, a \in AdapterResults,
          dbup \in BOOLEAN :
          Apply("get_license_data", c, refresh, a, get_license_data(c, refresh, a, dbup))

GetFormationData ==
    /\ "get_formation_data" \in scope.methods
    /\ \E c \in scope.counties, refresh \in BOOLEAN, a \in AdapterResults,
          dbup \in BOOLEAN :
          Apply("get_formation_data", c, refresh, a, get_formation_data(c, refresh, a, dbup))

GetCoverageStatus ==
    \E c \in scope.counties, dbup \in BOOLEAN :
        Apply("get_coverage_status", c, FALSE, "none", get_coverage_status(c, dbup))

ClearCache ==
    /\ pkl' = clear_cache_pkl
    /\ meta' = clear_cache_meta
    /\ call' = [NoCall EXCEPT !.op = "clear_cache"]
    /\ UNCHANGED <<now, db, freshness, scope, zvars, svars, ovars, cvars, hvars, rvars>>

Next ==
    \/ Tick
    \/ GetIndustryData
    \/ GetDemandSignals
    \/ GetSbaData
    \/ GetFirmAgeData
    \/ GetRfpData
    \/ GetAwardsData
    \/ GetLicenseData
    \/ GetFormationData
    \/ GetCoverageStatus
    \/ ClearCache

Spec == Init /\ [][Next]_vars

-----------------------------------------------------------------------------
(* Claims on the DataService getters *)

\* the data type and the kwargs under which a getter addresses the cache
DataTypeOf(op) ==
    CASE op = "get_industry_data"  -> "cbp_data"
      [] op = "get_demand_signals" -> "signals_data"
      [] op = "get_sba_data"       -> "sba_data"
      [] OTHER                     -> "firm_age_data"

KwargsOf(op) == IF op = "get_industry_data" THEN NaicsLevel ELSE NoKwargs

KeyOf(op, c) == _get_cache_key(DataTypeOf(op), c, KwargsOf(op))

\* a valid entry exists under the key of the call op(c) before the step
ValidBefore(op, c) ==
    ~IsNone(get_cached_data(pkl, meta, DataTypeOf(op), c, KwargsOf(op), now))

\* the same after the step
ValidAfter(op, c) ==
    ~IsNone(get_cached_data(pkl', meta', DataTypeOf(op), c, KwargsOf(op), now'))

\* every step but Tick leaves the clock alone and records its call, so a step
\* that keeps the clock is a call of call'.op
StepOf(ops) == now' = now /\ call'.op \in ops

\* a step of a cache-wrapped read; of a cache-backed getter
CacheWrapped == StepOf({"get_industry_data", "get_demand_signals"})
CacheBacked  == CacheWrapped \/ StepOf({"get_sba_data", "get_firm_age_data"})

\* C4: a call of get_industry_data or get_demand_signals with refresh=False
\* that finds no valid entry under its key fetches and stores, so that the
\* entry is valid right after the call and the same call would be served from
\* the cache.
C4_MissThenHit ==
    [][\A c \in Counties :
         (/\ CacheWrapped
          /\ call'.county = c
          /\ ~call'.refresh
          /\ ~ValidBefore(call'.op, c))
         => (/\ ValidAfter(call'.op, c)
             /\ meta'[KeyOf(call'.op, c)].timestamp = now')]_vars

\* C5: a call of a cache-backed getter with refresh=True is never served
\* from the cache, and an entry that exists under its key is overwritten: it
\* carries the time of the call and the payload the call returns.
C5_RefreshBypasses ==
    [][\A c \in Counties :
         (/\ CacheBacked
          /\ call'.county = c
          /\ call'.refresh)
         => (/\ ~call'.hit
             /\ (pkl[KeyOf(call'.op, c)].exists =>
                    /\ meta'[KeyOf(call'.op, c)].timestamp = now'
                    /\ pkl'[KeyOf(call'.op, c)].data = call'.result))]_vars

\* C6: an entry written at t0 under data type D is served at time t exactly
\* when t - t0 < TTL(D); nothing but a read decides it: the passing of time
\* alone leaves both files of every entry in place.
C6_StrictTTL ==
    /\ [](\A k \in AddressedCalls :
           LET key == _get_cache_key(k.data_type, k.county_fips, k.kwargs) IN
            (pkl[key].exists /\ meta[key].exists) =>
               (~IsNone(get_cached_data(pkl, meta, k.data_type, k.county_fips,
                                        k.kwargs, now))
                  <=> now - meta[key].timestamp < cache_duration(k.data_type)))
    /\ [][now' # now => (pkl' = pkl /\ meta' = meta)]_vars

\* an entry written 24 hours ago under cbp_data is on disk and is not served
C6_Witness ==
    \E c \in Counties :
       LET key == _get_cache_key("cbp_data", c, NaicsLevel)
       IN /\ pkl[key].exists /\ meta[key].exists
          /\ now - meta[key].timestamp = cache_duration("cbp_data")
          /\ IsNone(get_cached_data(pkl, meta, "cbp_data", c, NaicsLevel, now))

\* C8: a call of get_industry_data or get_demand_signals with refresh=False
\* that finds a valid entry under its key returns the stored payload, calls no
\* adapter, and leaves the payload and the metadata of the entry as they were.
C8_HitServesEntry ==
    [][\A c \in Counties :
         (/\ CacheWrapped
          /\ call'.county = c
          /\ ~call'.refresh
          /\ ValidBefore(call'.op, c))
         => (/\ call'.result = pkl[KeyOf(call'.op, c)].data
             /\ call'.hit /\ ~call'.fetched /\ ~call'.raised
             /\ pkl'[KeyOf(call'.op, c)] = pkl[KeyOf(call'.op, c)]
             /\ meta'[KeyOf(call'.op, c)] = meta[KeyOf(call'.op, c)])]_vars

\* an entry written earlier has just been served
C8_Witness ==
    /\ call.op = "get_industry_data" /\ ~call.refresh /\ call.hit
    /\ meta[KeyOf("get_industry_data", call.county)].timestamp < now
    /\ call.result = pkl[KeyOf("get_industry_data", call.county)].data

\* the effects of the calls of a behaviour's getter that reach the adapter
EffectOf(m, c, refresh, a, dbup) ==
    CASE m = "get_industry_data"  -> get_industry_data(c, refresh, a)
      [] m = "get_demand_signals" -> get_demand_signals(c, refresh)
      [] m = "get_sba_data"       -> get_sba_data(c, refresh, a, dbup)
      [] m = "get_firm_age_data"  -> get_firm_age_data(c, refresh, a, dbup)
      [] m = "get_rfp_data"       -> get_rfp_data(c, refresh, a, dbup)
      [] m = "get_awards_data"    -> get_awards_data(c, refresh, a, dbup)
      [] m = "get_license_data"   -> get_license_data(c, refresh, a, dbup)
      [] OTHER                    -> get_formation_data(c, refresh, a, dbup)

\* C9: in every state, a call whose adapter raises and the same call whose
\* adapter returns [] leave the store, data_freshness and the cache in the
\* same state and return the same value, so no later call can tell them apart.
C9_RaiseIsEmpty ==
    \A m \in scope.methods, c \in scope.counties, refresh \in BOOLEAN, dbup \in BOOLEAN :
        EffectOf(m, c, refresh, "raise", dbup)
            = EffectOf(m, c, refresh, "empty", dbup)

\* an adapter has raised during a call on a county whose table holds rows
C9_Witness ==
    /\ call.fetched /\ call.adapter = "raise"
    /\ call.op \in {"get_rfp_data", "get_awards_data", "get_license_data",
                    "get_formation_data", "get_sba_data"}
    /\ ~IsEmpty(call.result)
    /\ freshness[IF call.op = "get_rfp_data" THEN "rfps"
                 ELSE IF call.op = "get_awards_data" THEN "awards"
                 ELSE IF call.op = "get_license_data" THEN "licenses"
                 ELSE IF call.op = "get_formation_data" THEN "formations"
                 ELSE "sba"].has

\* C10: no call of a getter of the component test raises.
C10_NeverRaises ==
    call.op \in {"get_industry_data", "get_sba_data", "get_rfp_data",
                 "get_awards_data", "get_license_data", "get_firm_age_data",
                 "get_formation_data", "get_coverage_status"} => ~call.raised

\* what get_cached_data returns for the call k
Served(p, m, k, t) == get_cached_data(p, m, k.data_type, k.county_fips, k.kwargs, t)

\* the step calls cache_data on the key of k
CachesKeyOf(k) ==
    /\ CacheBacked
    /\ KeyOf(call'.op, call'.county) = AddressedKey[k]

\* a step of a getter that writes the store and never calls cache_data
StoreOnly == StepOf({"get_rfp_data", "get_awards_data", "get_license_data",
                     "get_formation_data"})

\* C22: what get_cached_data returns for a key changes only through a
\* cache_data call on that key, through the entry's age reaching its TTL, or
\* through clear_cache; a write to the store leaves every payload and metadata
\* file as it was; after clear_cache() every key is a miss, and a miss becomes a
\* hit only through cache_data on that key.
C22_EntryLifecycle ==
    /\ [][\A k \in AddressedCalls :
             LET key == AddressedKey[k]
                 files == pkl'[key] # pkl[key] \/ meta'[key] # meta[key]
             IN /\ files => (CachesKeyOf(k) \/ StepOf({"clear_cache"}))
                \* the answer is read from the two files of the key and the clock
                /\ ((files \/ now' # now)
                    /\ Served(pkl', meta', k, now') # Served(pkl, meta, k, now)) =>
                      /\ \/ CachesKeyOf(k)
                         \/ /\ now' # now
                            /\ now' - meta[key].timestamp >= cache_duration(k.data_type)
                         \/ StepOf({"clear_cache"})
                      /\ IsNone(Served(pkl, meta, k, now)) => CachesKeyOf(k)]_vars
    /\ [][StoreOnly => (pkl' = pkl /\ meta' = meta)]_vars
    /\ [][StepOf({"clear_cache"}) =>
             \A k \in AddressedCalls : IsNone(Served(pkl', meta', k, now'))]_vars

\* RFP records are written to the store while an industry entry is being
\* served, and the entry is still served
C22_Witness ==
    /\ call.op = "get_rfp_data"
    /\ call.fetched
    /\ db["rfps"][call.county] # {}
    /\ freshness["rfps"].has /\ freshness["rfps"].at = now
    /\ ~IsNone(Served(pkl, meta, CallOf("cbp_data", call.county, NaicsLevel), now))

\* the data_freshness row and store table a store getter works on
FreshnessSourceOf(op) ==
    CASE op = "get_rfp_data"       -> "rfps"
      [] op = "get_awards_data"    -> "awards"
      [] op = "get_license_data"   -> "licenses"
      [] op = "get_formation_data" -> "formations"

\* C26: a non-refresh store getter for county C invokes the adapter for C unless
\* data for C itself was fetched within the freshness window: while the store
\* holds no record of the source for C (nothing was ever fetched for C), the
\* call fetches, whatever was fetched for another county.
C26_FreshnessPerCounty ==
    [][(StoreOnly /\ ~call'.refresh
           /\ db[FreshnessSourceOf(call'.op)][call'.county] = {})
          => call'.fetched]_vars

\* C30: cache_data with None or an empty table changes nothing: it creates no
\* entry and leaves the payload and the timestamp of an existing entry as they
\* were; after a getter fetched and got nothing, a failed refresh included,
\* every entry is served as before the call.
C30_EmptyChangesNothing ==
    /\ [](\A k \in AddressedCalls : \A data \in {NoneFrame, EmptyFrame} :
             /\ CachedPkl(pkl, data, k.data_type, k.county_fips, k.kwargs) = pkl
             /\ CachedMeta(meta, data, k.data_type, k.county_fips, k.kwargs, now) = meta)
    /\ [][(CacheWrapped /\ ~call'.hit /\ IsEmpty(call'.result)) =>
             /\ pkl' = pkl
             /\ meta' = meta
             /\ \A k \in AddressedCalls :
                   Served(pkl', meta', k, now') = Served(pkl, meta, k, now)]_vars

\* a refresh of get_industry_data that fetched nothing, while the entry written
\* earlier for that county is still served
C30_Witness ==
    /\ call.op = "get_industry_data"
    /\ call.refresh /\ call.fetched /\ IsEmpty(call.result)
    /\ LET k == CallOf("cbp_data", call.county, NaicsLevel)
       IN /\ pkl[AddressedKey[k]].exists
          /\ meta[AddressedKey[k]].timestamp < now
          /\ ~IsNone(Served(pkl, meta, k, now))

-----------------------------------------------------------------------------
(* Specification SpecRace: two threads in cache_data on the same key *)

Threads == {"A", "B"}

\* the non-empty frames handed to cache_data
Payloads == {Frame("cbp", {r}, 0) : r \in RecordLists}

StoreIdle == db = <<>> /\ freshness = <<>> /\ call = <<>> /\ scope = <<>>

InitRace ==
    /\ now = 0
    /\ pkl = [key \in CacheKeys |-> NoFile]
    /\ meta = [key \in CacheKeys |-> NoMeta]
    /\ \E c \in Counties :
          rarg \in [Threads -> [data : Payloads, county_fips : {c}, stamp : {0}]]
    /\ rpc = [t \in Threads |-> "start"]
    /\ StoreIdle /\ ZIdle /\ SIdle /\ OIdle /\ CIdle /\ HIdle

RaceKey(t) == _get_cache_key("cbp_data", rarg[t].county_fips, NaicsLevel)

\* pickle.dump(data, f)
WritePayload(t) ==
    /\ rpc[t] = "start"
    /\ pkl' = [pkl EXCEPT ![RaceKey(t)] = PklFile(rarg[t].data)]
    /\ rpc' = [rpc EXCEPT ![t] = "payload_written"]
    /\ UNCHANGED <<now, meta, rarg, db, freshness, call, scope, zvars, svars, ovars, cvars, hvars>>

\* json.dump(metadata, f) with timestamp = datetime.now(), rows = len(data)
WriteMetadata(t) ==
    /\ rpc[t] = "payload_written"
    /\ meta' = [meta EXCEPT ![RaceKey(t)] = MetaFile(now, FrameRows(rarg[t].data))]
    /\ rarg' = [rarg EXCEPT ![t].stamp = now]
    /\ rpc' = [rpc EXCEPT ![t] = "done"]
    /\ UNCHANGED <<now, pkl, db, freshness, call, scope, zvars, svars, ovars, cvars, hvars>>

RaceTick ==
    /\ now + TickHours <= MaxTime
    /\ \E t \in Threads : rpc[t] # "done"
    /\ now' = now + TickHours
    /\ UNCHANGED <<pkl, meta, rpc, rarg, db, freshness, call, scope, zvars, svars, ovars, cvars, hvars>>

NextRace ==
    \/ \E t \in Threads : WritePayload(t)
    \/ \E t \in Threads : WriteMetadata(t)
    \/ RaceTick

SpecRace == InitRace /\ [][NextRace]_vars

=============================================================================
